---- MODULE Spec2Model ----
(***************************************************************************)
(* Parse cache of the bundler (internal/cache): the per-language entry     *)
(* stores with their Parse facades, and the source-index allocator with    *)
(* its persisted state.                                                    *)
(*                                                                         *)
(* The three entry stores (JS, CSS, JSON) share no state: each has its own *)
(* map and its own mutex.  The model follows one store; `lang` says which  *)
(* one, and selects the hit test and the parser of that language.          *)
(***************************************************************************)
EXTENDS Integers, Sequences, FiniteSets, TLC

\* ------------------------------------------------------------------ bounds

\* Number of Parse calls recorded in the serial harness.
MaxCalls == 3

\* The allocator hands out indices below MaxIndex.
MaxIndex == 4

\* Number of process restarts followed.
MaxBoots == 1

\* ------------------------------------------------------------- input sets

Threads == {"t1", "t2"}

Langs == {"js", "css", "json"}

NoEntry == [none |-> TRUE]

NoCall == [none |-> TRUE]

NoRet == [none |-> TRUE]

NoThread == "free"

\* logger.Source: { KeyPath, PrettyPath, Contents, IdentifierName, Index }.
BaseSource ==
  [keyPath |-> "/a.js", prettyPath |-> "a.js", contents |-> "good",
   identifierName |-> "a", index |-> 1]

\* The base source and the sources that differ from it in exactly one field.
Sources ==
  { BaseSource,
    [BaseSource EXCEPT !.keyPath = "/b.js"],
    [BaseSource EXCEPT !.prettyPath = "lib/a.js"],
    [BaseSource EXCEPT !.contents = "bad"],
    [BaseSource EXCEPT !.identifierName = "a2"],
    [BaseSource EXCEPT !.index = 2] }

KeyPaths == { s.keyPath : s \in Sources }

Options == {"o1", "o2"}

\* The zero value of js_parser.Options, left in entries restored from disk.
ZeroOptions == "zero"

\* The (source, options) pairs Parse is called with.
Inputs ==
  { [source |-> s, options |-> "o1"] : s \in Sources }
    \cup { [source |-> BaseSource, options |-> "o2"] }

\* ---------------------------------------------------- external collaborators

\* The parsers are deterministic pure functions of (source, options); the
\* AST is an opaque value determined by both.
ParserAst(l, s, o) == [lang |-> l, of |-> s, with |-> o]

\* css_parser.Parse has no ok result; the model gives it the constant TRUE.
ParserOk(l, s, o) == l = "css" \/ s.contents # "bad"

ParserMsgs(l, s, o) ==
  IF s.contents = "bad" THEN <<"E1", "E2">>
  ELSE IF o = "o2" THEN <<"W1">>
  ELSE <<>>

\* logger.NewDeferLog(DeferLogAll, ...): AddMsg appends, Done returns the
\* buffered messages.
DeferLogDone(buffer) == buffer

\* log.AddMsg on the caller's log.
AddMsg(lg, msg) == Append(lg, msg)

\* ------------------------------------------------------------------- state

VARIABLES
  lang,        \* which of the three entry stores this is
  harness,     \* "parallel": many callers at once; "serial": one caller
  entries,     \* c.entries: key path -> entry, or NoEntry
  mutex,       \* c.mutex: NoThread, or the holder
  pc,          \* per thread: its position in Parse
  call,        \* per thread: the (source, options) of the running call
  entry,       \* per thread: the local variable `entry` of Parse
  log,         \* per thread: what the call has added to the caller's log
  parsed,      \* per thread: the call has invoked the external parser
  found,       \* per thread: what the probe saw ("none", "match", "differ")
  ret,         \* per thread: the returned (ast, ok), or NoRet
  ldPc,        \* loader (LoadCacheFromDir goroutine): "idle" or "locked"
  ldEntry,     \* loader: the entry AddJsEntry is inserting
  lastInsert,  \* per key: the entry of the last insert under the mutex
  hist         \* serial harness: the completed calls, oldest first

cacheVars ==
  <<lang, harness, entries, mutex, pc, call, entry, log, parsed, found, ret,
    ldPc, ldEntry, lastInsert, hist>>

VARIABLES
  srcEntries,       \* SourceIndexCache.entries: sourceIndexKey -> index
  globEntries,      \* SourceIndexCache.globEntries: packed key -> index
  nextSourceIndex,  \* SourceIndexCache.nextSourceIndex
  disk,             \* source_index_cache.json: NoFile or the written record
  alive,            \* FALSE once a panic has ended the process
  lastOp,           \* the last allocator call and what it returned
  owner,            \* per index: the name of the first key it was returned for
  persisted,        \* the allocator state at the last Persist, or NoFile
  boots             \* how many times a new process has started

allocVars ==
  <<srcEntries, globEntries, nextSourceIndex, disk, alive, lastOp, owner,
    persisted, boots>>

VARIABLES
  prog,   \* per goroutine: the steps left of the operation it is running
  held    \* per mutex: the goroutine holding it, or NoThread

raceVars == <<prog, held>>

VARIABLES
  files,     \* cache_jsons: record file name -> the record written, or NoFile
  svPc,      \* SaveCacheEntryToFile: "idle", or "locked" while it holds the mutex
  svKey,     \* SaveCacheEntryToFile: its filePath and entryPath, <<>> when idle
  lastSave   \* the last SaveCacheEntryToFile call and what it returned

saveVars == <<files, svPc, svKey, lastSave>>

VARIABLES
  named   \* the two entries whose record file names are being compared

VARIABLES
  dirFiles,   \* LoadCacheFromDir: the directory listing, file -> is regular
  pending,    \* LoadCacheFromDir: the files whose goroutine has not finished
  ldLocked,   \* LoadCacheFromDir: the file whose goroutine holds the mutex
  loadPc,     \* LoadCacheFromDir: "idle", "waiting" (wg.Wait) or "returned"
  inserted    \* LoadCacheFromDir: the files whose goroutine has come back
              \* from AddJsEntry and has not yet tested parseErr

loadVars == <<dirFiles, pending, ldLocked, loadPc, inserted>>

VARIABLES
  damage,   \* LoadCacheFromDir: per listed file, what is wrong with its record
  sample,   \* the value a conversion is applied to
  result,   \* what the conversion returned, or NoOp before it ran
  symbols   \* the SymbolMap: the Link of every symbol

caseVars == <<named, damage, sample, result, symbols>>

auxVars == <<raceVars, saveVars, caseVars, loadVars>>

vars == <<cacheVars, allocVars, auxVars>>

\* ------------------------------------------------------- cache: operators

RECURSIVE ReplayNewestFirst(_, _)
\* Replay with each message put in front of the ones already replayed.
ReplayNewestFirst(lg, msgs) ==
  IF msgs = <<>> THEN lg
  ELSE ReplayNewestFirst(<<Head(msgs)>> \o lg, Tail(msgs))

\* A replay that adds every message twice.
ReplayTwice(lg, msgs) == lg \o msgs \o msgs

RECURSIVE Replay(_, _)
\* for _, msg := range msgs { log.AddMsg(msg) }
Replay(lg, msgs) ==
  IF msgs = <<>> THEN lg
  ELSE Replay(AddMsg(lg, Head(msgs)), Tail(msgs))

\* css_parser.Options.Equal and the == of js_parser.JSONOptions.
OptionsEqual(a, b) == a = b

\* The hit test of the upstream cache for every language: the whole source
\* tuple and the options.
IsHitWholeSource(l, e, s, o) ==
  /\ e # NoEntry
  /\ e.source = s
  /\ e.options = o

\* A hit test that leaves out the contents.
IsHitPathOnly(l, e, s, o) ==
  /\ e # NoEntry
  /\ e.source.prettyPath = s.prettyPath
  /\ l # "js" => (e.source = s /\ e.options = o)

\* The cache-hit condition of each Parse.
IsHit(l, e, s, o) ==
  /\ e # NoEntry
  /\ CASE l = "js" ->
            /\ e.source.prettyPath = s.prettyPath
            /\ e.source.contents = s.contents
       [] l = "css" -> e.source = s /\ OptionsEqual(e.options, o)
       [] l = "json" -> e.source = s /\ e.options = o

\* entry = &jsCacheEntry{source, options, ast, ok, msgs} (and the CSS and
\* JSON analogues).  `origin` is not a field of the code: it records whether
\* a miss or the disk loader made the entry.
NewCacheEntry(s, o, ast, ok, msgs) ==
  [source |-> s, msgs |-> msgs, options |-> o, ast |-> ast, ok |-> ok,
   origin |-> "parse"]

\* An insert that keeps the entry a key already has.
SetEntryIfAbsent(es, e) ==
  IF es[e.source.keyPath] = NoEntry THEN [es EXCEPT ![e.source.keyPath] = e]
  ELSE es

\* An insert that does not cache the result of a failed parse.
SetEntryUnlessFailed(es, e) ==
  IF e.ok THEN [es EXCEPT ![e.source.keyPath] = e] ELSE es

\* An insert that replaces the whole map by one holding only the new entry.
SetEntryReplacingAll(es, e) ==
  [k \in DOMAIN es |-> IF k = e.source.keyPath THEN e ELSE NoEntry]

\* c.entries[entry.source.KeyPath] = entry
SetEntry(es, e) == [es EXCEPT ![e.source.keyPath] = e]

\* The value Parse returns on a hit.
HitResult(e) == [ast |-> e.ast, ok |-> e.ok]

\* A restore that keeps the diagnostics the entry was created with.
RestoredEntryKeepingMsgs(e) ==
  [source |-> e.source, msgs |-> e.msgs, options |-> ZeroOptions,
   ast |-> [decoded |-> e.ast], ok |-> e.ok, origin |-> "disk"]

\* parseCacheEntryFromJson: the entry rebuilt from the record of `e`; the
\* diagnostics are reset to an empty list and the options are not restored.
RestoredEntry(e) ==
  [source |-> e.source, msgs |-> <<>>, options |-> ZeroOptions,
   ast |-> [decoded |-> e.ast], ok |-> e.ok, origin |-> "disk"]

\* The records of the cache directory: one written by an earlier process
\* for the base source, one for the failing source.
DiskEntries ==
  { RestoredEntry(NewCacheEntry(s, "o1", ParserAst("js", s, "o1"),
                                ParserOk("js", s, "o1"),
                                ParserMsgs("js", s, "o1"))) :
      s \in {BaseSource, [BaseSource EXCEPT !.contents = "bad"]} }

\* What the probe saw, by the cache-equivalence of two sources (pretty path
\* and contents).
Seen(e, s) ==
  IF e = NoEntry THEN "none"
  ELSE IF e.source.prettyPath = s.prettyPath /\ e.source.contents = s.contents
       THEN "match"
       ELSE "differ"

SerialThread == "t1"

\* ------------------------------------------------------------------- Init

CacheInit ==
  /\ lang \in Langs
  /\ harness \in {"parallel", "serial"}
  /\ entries = [k \in KeyPaths |-> NoEntry]
  /\ mutex = NoThread
  /\ pc = [t \in Threads |-> "idle"]
  /\ call = [t \in Threads |-> NoCall]
  /\ entry = [t \in Threads |-> NoEntry]
  /\ log = [t \in Threads |-> <<>>]
  /\ parsed = [t \in Threads |-> FALSE]
  /\ found = [t \in Threads |-> "none"]
  /\ ret = [t \in Threads |-> NoRet]
  /\ ldPc = "idle"
  /\ ldEntry = NoEntry
  /\ lastInsert = [k \in KeyPaths |-> NoEntry]
  /\ hist = <<>>

\* ---------------------------------------------------------- cache: actions

\* A caller enters Parse(log, source, options).
Call(t, in) ==
  /\ UNCHANGED <<allocVars, auxVars>>
  /\ pc[t] = "idle"
  /\ harness = "serial" =>
       /\ t = SerialThread
       /\ Len(hist) < MaxCalls
       /\ ldPc = "idle"
  /\ pc' = [pc EXCEPT ![t] = "lockProbe"]
  /\ call' = [call EXCEPT ![t] = in]
  /\ UNCHANGED <<lang, harness, entries, mutex, entry, log, parsed, found,
                 ret, ldPc, ldEntry, lastInsert, hist>>

\* c.mutex.Lock() of the probe closure.
LockProbe(t) ==
  /\ UNCHANGED <<allocVars, auxVars>>
  /\ pc[t] = "lockProbe"
  /\ mutex = NoThread
  /\ mutex' = t
  /\ pc' = [pc EXCEPT ![t] = "probe"]
  /\ UNCHANGED <<lang, harness, entries, call, entry, log, parsed, found,
                 ret, ldPc, ldEntry, lastInsert, hist>>

\* A hit that also takes over the caller's source where the index differs
\* (the assignment entry.source = source).
ProbeHitSwitchingIndex(t) ==
  /\ UNCHANGED <<allocVars, auxVars>>
  /\ pc[t] = "probe"
  /\ mutex = t
  /\ LET e == entries[call[t].source.keyPath] IN
       /\ IsHit(lang, e, call[t].source, call[t].options)
       /\ entry' = [entry EXCEPT ![t] = e]
       /\ found' = [found EXCEPT ![t] = Seen(e, call[t].source)]
       /\ log' = [log EXCEPT ![t] = Replay(log[t], e.msgs)]
       /\ ret' = [ret EXCEPT ![t] = HitResult(e)]
       /\ entries' = IF e.source.index # call[t].source.index
                     THEN [entries EXCEPT
                             ![call[t].source.keyPath].source = call[t].source]
                     ELSE entries
  /\ mutex' = NoThread
  /\ pc' = [pc EXCEPT ![t] = "done"]
  /\ UNCHANGED <<lang, harness, call, parsed, ldPc, ldEntry,
                 lastInsert, hist>>

\* The probe reads c.entries[source.KeyPath] and unlocks; the hit test
\* succeeds: the buffered diagnostics are replayed and the entry's
\* (ast, ok) returned.
ProbeHit(t) ==
  /\ UNCHANGED <<allocVars, auxVars>>
  /\ pc[t] = "probe"
  /\ mutex = t
  /\ LET e == entries[call[t].source.keyPath] IN
       /\ IsHit(lang, e, call[t].source, call[t].options)
       /\ entry' = [entry EXCEPT ![t] = e]
       /\ found' = [found EXCEPT ![t] = Seen(e, call[t].source)]
       /\ log' = [log EXCEPT ![t] = Replay(log[t], e.msgs)]
       /\ ret' = [ret EXCEPT ![t] = HitResult(e)]
  /\ mutex' = NoThread
  /\ pc' = [pc EXCEPT ![t] = "done"]
  /\ UNCHANGED <<lang, harness, entries, call, parsed, ldPc, ldEntry,
                 lastInsert, hist>>

\* A probe that misses and returns without the deferred Unlock.
ProbeMissKeepingLock(t) ==
  /\ UNCHANGED <<allocVars, auxVars>>
  /\ pc[t] = "probe"
  /\ mutex = t
  /\ LET e == entries[call[t].source.keyPath] IN
       /\ ~IsHit(lang, e, call[t].source, call[t].options)
       /\ entry' = [entry EXCEPT ![t] = e]
       /\ found' = [found EXCEPT ![t] = Seen(e, call[t].source)]
  /\ pc' = [pc EXCEPT ![t] = "miss"]
  /\ UNCHANGED <<lang, harness, entries, mutex, call, log, parsed, ret, ldPc,
                 ldEntry, lastInsert, hist>>

\* The probe reads c.entries[source.KeyPath] and unlocks; the hit test
\* fails.
ProbeMiss(t) ==
  /\ UNCHANGED <<allocVars, auxVars>>
  /\ pc[t] = "probe"
  /\ mutex = t
  /\ LET e == entries[call[t].source.keyPath] IN
       /\ ~IsHit(lang, e, call[t].source, call[t].options)
       /\ entry' = [entry EXCEPT ![t] = e]
       /\ found' = [found EXCEPT ![t] = Seen(e, call[t].source)]
  /\ mutex' = NoThread
  /\ pc' = [pc EXCEPT ![t] = "miss"]
  /\ UNCHANGED <<lang, harness, entries, call, log, parsed, ret, ldPc,
                 ldEntry, lastInsert, hist>>

\* Cache miss: the parser runs against a deferred log, the drained
\* diagnostics go to the caller's log, and the new entry is built.
Miss(t) ==
  /\ UNCHANGED <<allocVars, auxVars>>
  /\ pc[t] = "miss"
  /\ LET s == call[t].source
         o == call[t].options
         msgs == DeferLogDone(ParserMsgs(lang, s, o))
     IN
       /\ log' = [log EXCEPT ![t] = Replay(log[t], msgs)]
       /\ entry' = [entry EXCEPT ![t] =
                      NewCacheEntry(s, o, ParserAst(lang, s, o),
                                    ParserOk(lang, s, o), msgs)]
  /\ parsed' = [parsed EXCEPT ![t] = TRUE]
  /\ pc' = [pc EXCEPT ![t] = "lockInsert"]
  /\ UNCHANGED <<lang, harness, entries, mutex, call, found, ret, ldPc,
                 ldEntry, lastInsert, hist>>

\* c.mutex.Lock() of SetCacheEntry (JS) or of the tail of Parse (CSS, JSON).
LockInsert(t) ==
  /\ UNCHANGED <<allocVars, auxVars>>
  /\ pc[t] = "lockInsert"
  /\ mutex = NoThread
  /\ mutex' = t
  /\ pc' = [pc EXCEPT ![t] = "insert"]
  /\ UNCHANGED <<lang, harness, entries, call, entry, log, parsed, found,
                 ret, ldPc, ldEntry, lastInsert, hist>>

\* c.entries[source.KeyPath] = entry; unlock; return ast, ok.
Insert(t) ==
  /\ UNCHANGED <<allocVars, auxVars>>
  /\ pc[t] = "insert"
  /\ mutex = t
  /\ entries' = SetEntry(entries, entry[t])
  /\ lastInsert' = [lastInsert EXCEPT ![call[t].source.keyPath] = entry[t]]
  /\ mutex' = NoThread
  /\ ret' = [ret EXCEPT ![t] = [ast |-> entry[t].ast, ok |-> entry[t].ok]]
  /\ pc' = [pc EXCEPT ![t] = "done"]
  /\ UNCHANGED <<lang, harness, call, entry, log, parsed, found, ldPc,
                 ldEntry, hist>>

\* The caller takes the result; the serial harness records the call.
Return(t) ==
  /\ UNCHANGED <<allocVars, auxVars>>
  /\ pc[t] = "done"
  /\ hist' = IF harness = "serial"
             THEN Append(hist, [call |-> call[t], found |-> found[t],
                                parsed |-> parsed[t], ret |-> ret[t],
                                log |-> log[t]])
             ELSE hist
  /\ pc' = [pc EXCEPT ![t] = "idle"]
  /\ call' = [call EXCEPT ![t] = NoCall]
  /\ entry' = [entry EXCEPT ![t] = NoEntry]
  /\ log' = [log EXCEPT ![t] = <<>>]
  /\ parsed' = [parsed EXCEPT ![t] = FALSE]
  /\ found' = [found EXCEPT ![t] = "none"]
  /\ ret' = [ret EXCEPT ![t] = NoRet]
  /\ UNCHANGED <<lang, harness, entries, mutex, ldPc, ldEntry, lastInsert>>

\* CacheSet.AddJsEntry, called by a loader goroutine: Lock.  The serial
\* harness loads before its first call, as GetCacheFromDisk does.
AddJsEntryLock(e) ==
  /\ UNCHANGED <<allocVars, auxVars>>
  /\ lang = "js"
  /\ ldPc = "idle"
  /\ mutex = NoThread
  /\ harness = "serial" => hist = <<>> /\ pc[SerialThread] = "idle"
  /\ mutex' = "loader"
  /\ ldPc' = "locked"
  /\ ldEntry' = e
  /\ UNCHANGED <<lang, harness, entries, pc, call, entry, log, parsed, found,
                 ret, lastInsert, hist>>

\* CacheSet.AddJsEntry: the insert and the deferred Unlock.
AddJsEntryInsert ==
  /\ UNCHANGED <<allocVars, auxVars>>
  /\ ldPc = "locked"
  /\ mutex = "loader"
  /\ entries' = SetEntry(entries, ldEntry)
  /\ lastInsert' = [lastInsert EXCEPT ![ldEntry.source.keyPath] = ldEntry]
  /\ mutex' = NoThread
  /\ ldPc' = "idle"
  /\ ldEntry' = NoEntry
  /\ UNCHANGED <<lang, harness, pc, call, entry, log, parsed, found, ret,
                 hist>>

\* --------------------------------------------------- allocator: operators

\* Indices are uint32 in the code; every index of the model stays below
\* MaxIndex + someExtraRoom, far from the wrap at 2^32.
\* runtime.SourceIndex: the index of the runtime file.
RuntimeSourceIndex == 0

someExtraRoom == 16

SourceIndexNormal == 0

SourceIndexJSStubForCSS == 1

NoFile == [none |-> TRUE]

\* The state file after an os.WriteFile that failed once the file was
\* opened: os.WriteFile opens with O_TRUNC, so the old bytes are gone and
\* json.Unmarshal fails on what is left.
TruncatedFile == [truncated |-> TRUE]

NoOp == [op |-> "none"]

EmptyMap == [x \in {} |-> 0]

\* Strings are sequences of one-character strings.
DigitChars == <<"0", "1", "2", "3", "4", "5", "6", "7", "8", "9">>

IsDigit(c) == \E i \in 1..10 : DigitChars[i] = c

DigitVal(c) == (CHOOSE i \in 1..10 : DigitChars[i] = c) - 1

RECURSIVE FormatUint(_)
\* The verb %d of fmt.Sprintf.
FormatUint(n) ==
  IF n < 10 THEN <<DigitChars[n + 1]>>
  ELSE FormatUint(n \div 10) \o <<DigitChars[(n % 10) + 1]>>

RECURSIVE SkipSpace(_)
\* fmt.Sscanf skips the blanks before a verb and for a blank of the format.
SkipSpace(s) ==
  IF s # <<>> /\ Head(s) = " " THEN SkipSpace(Tail(s)) ELSE s

RECURSIVE ScanToken(_)
\* The verb %s of fmt.Sscanf: the characters up to the next blank.
ScanToken(s) ==
  IF s = <<>> \/ Head(s) = " " THEN <<>>
  ELSE <<Head(s)>> \o ScanToken(Tail(s))

RECURSIVE ScanDigits(_)
\* The digits the verb %d of fmt.Sscanf consumes.
ScanDigits(s) ==
  IF s = <<>> \/ ~IsDigit(Head(s)) THEN <<>>
  ELSE <<Head(s)>> \o ScanDigits(Tail(s))

RECURSIVE DigitsValue(_, _)
DigitsValue(acc, ds) ==
  IF ds = <<>> THEN acc
  ELSE DigitsValue(acc * 10 + DigitVal(Head(ds)), Tail(ds))

\* logger.Path.ToString and logger.PathFromString: a path is written as its
\* text and read back from it.
PathToString(path) == path

PathFromString(str) == str

ScanError == [error |-> TRUE]

\* sourceIndexKey.ToString: fmt.Sprintf("%s %d", pathStr, s.kind).
KeyToString(key) == PathToString(key.path) \o <<" ">> \o FormatUint(key.kind)

\* SrcIdxKeyFromString: fmt.Sscanf(str, "%s %d", &pathStr, &kind), then
\* logger.PathFromString(pathStr); ScanError where the code panics.  The
\* kind is a uint8.
SrcIdxKeyFromString(str) ==
  LET s1 == SkipSpace(str)
      pathStr == ScanToken(s1)
      s2 == SkipSpace(SubSeq(s1, Len(pathStr) + 1, Len(s1)))
      digits == ScanDigits(s2)
  IN IF pathStr = <<>> \/ digits = <<>> \/ DigitsValue(0, digits) > 255
     THEN ScanError
     ELSE [path |-> PathFromString(pathStr), kind |-> DigitsValue(0, digits)]

\* A packed key without the shift: uint64(parentSourceIndex) | uint64(globIndex),
\* for word values 0 and 1.
GlobKeyNoShift(parentSourceIndex, globIndex) ==
  <<0, IF parentSourceIndex = 1 \/ globIndex = 1 THEN 1 ELSE 0>>

\* key := (uint64(parentSourceIndex) << 32) | uint64(globIndex): the uint64
\* is written as its <<high word, low word>>.
GlobKey(parentSourceIndex, globIndex) == <<parentSourceIndex, globIndex>>

\* SourceIndexCache.Serialize: the record json.Marshal writes.
Serialize(es, gs, n) ==
  [NextSourceIndex |-> n,
   Entries |-> [str \in { KeyToString(k) : k \in DOMAIN es } |->
                  es[CHOOSE k \in DOMAIN es : KeyToString(k) = str]],
   GlobEntries |-> gs]

\* The keys SourceIndexCache.Deserialize reads back.
DeserializedKeys(ser) == { SrcIdxKeyFromString(str) : str \in DOMAIN ser.Entries }

\* SourceIndexCache.Deserialize: the entries maps it can build; two strings
\* that read back as one key overwrite each other in map iteration order.
DeserializeEntries(ser) ==
  { f \in [DeserializedKeys(ser) -> { ser.Entries[str] : str \in DOMAIN ser.Entries }] :
      \A k \in DOMAIN f :
        \E str \in DOMAIN ser.Entries :
          SrcIdxKeyFromString(str) = k /\ f[k] = ser.Entries[str] }

\* GetFromDisk panics: the file is missing (os.ReadFile fails), or a key
\* string of the file does not scan.
LoadPanics(file) ==
  IF file \in {NoFile, TruncatedFile} THEN TRUE
  ELSE ScanError \in DeserializedKeys(file)

\* The keys Get is called with: path text and kind.
PlainKeys ==
  { [path |-> <<"a">>, kind |-> SourceIndexNormal],
    [path |-> <<"b">>, kind |-> SourceIndexNormal],
    [path |-> <<"a">>, kind |-> SourceIndexJSStubForCSS] }

SpacedKeys ==
  { [path |-> <<"m", " ", "d">>, kind |-> SourceIndexNormal],
    [path |-> <<"a", " ", "1">>, kind |-> SourceIndexNormal] }

AllocKeys == PlainKeys \cup SpacedKeys

\* The (parent, glob) pairs GetGlob is called with.
GlobPairs == { <<0, 1>>, <<1, 0>> }

\* The names under which `owner` remembers the keys of Get and of GetGlob.
NoName == <<>>

SrcName(key) == <<"src">> \o key.path \o <<"#">> \o FormatUint(key.kind)

GlobName(parent, glob) == <<"glob">> \o FormatUint(parent) \o <<"#">> \o FormatUint(glob)

\* The first key an index is returned for owns it.
Own(ow, index, name) ==
  IF ow[index] = NoName THEN [ow EXCEPT ![index] = name] ELSE ow

AllocInit ==
  /\ srcEntries = EmptyMap
  /\ globEntries = EmptyMap
  /\ nextSourceIndex = RuntimeSourceIndex + 1
  /\ disk = NoFile
  /\ alive = TRUE
  /\ lastOp = NoOp
  /\ owner = [i \in 0..(MaxIndex - 1) |-> NoName]
  /\ persisted = NoFile
  /\ boots = 0

\* ------------------------------------------------------ allocator: actions

\* A Get without the lookup: it assigns a new index on every call.
GetWithoutLookup(key) ==
  /\ alive
  /\ nextSourceIndex < MaxIndex
  /\ lastOp' = [op |-> "Get", key |-> key, known |-> key \in DOMAIN srcEntries,
                before |-> nextSourceIndex, ret |-> nextSourceIndex]
  /\ owner' = Own(owner, nextSourceIndex, SrcName(key))
  /\ nextSourceIndex' = nextSourceIndex + 1
  /\ srcEntries' = (key :> nextSourceIndex) @@ srcEntries
  /\ UNCHANGED <<globEntries, disk, alive, persisted, boots>>
  /\ UNCHANGED <<cacheVars, auxVars>>

\* SourceIndexCache.Get(path, kind), under the allocator mutex.
Get(key) ==
  /\ alive
  /\ IF key \in DOMAIN srcEntries
     THEN /\ lastOp' = [op |-> "Get", key |-> key, known |-> TRUE,
                        before |-> nextSourceIndex, ret |-> srcEntries[key]]
          /\ owner' = Own(owner, srcEntries[key], SrcName(key))
          /\ UNCHANGED <<srcEntries, nextSourceIndex>>
     ELSE /\ nextSourceIndex < MaxIndex
          /\ lastOp' = [op |-> "Get", key |-> key, known |-> FALSE,
                        before |-> nextSourceIndex, ret |-> nextSourceIndex]
          /\ owner' = Own(owner, nextSourceIndex, SrcName(key))
          /\ nextSourceIndex' = nextSourceIndex + 1
          /\ srcEntries' = (key :> nextSourceIndex) @@ srcEntries
  /\ UNCHANGED <<globEntries, disk, alive, persisted, boots>>
  /\ UNCHANGED <<cacheVars, auxVars>>

\* SourceIndexCache.GetGlob(parentSourceIndex, globIndex), under the mutex.
GetGlob(parent, glob) ==
  /\ alive
  /\ LET key == GlobKey(parent, glob) IN
     IF key \in DOMAIN globEntries
     THEN /\ lastOp' = [op |-> "GetGlob", key |-> <<parent, glob>>,
                        known |-> TRUE, before |-> nextSourceIndex,
                        ret |-> globEntries[key]]
          /\ owner' = Own(owner, globEntries[key], GlobName(parent, glob))
          /\ UNCHANGED <<globEntries, nextSourceIndex>>
     ELSE /\ nextSourceIndex < MaxIndex
          /\ lastOp' = [op |-> "GetGlob", key |-> <<parent, glob>>,
                        known |-> FALSE, before |-> nextSourceIndex,
                        ret |-> nextSourceIndex]
          /\ owner' = Own(owner, nextSourceIndex, GlobName(parent, glob))
          /\ nextSourceIndex' = nextSourceIndex + 1
          /\ globEntries' = (key :> nextSourceIndex) @@ globEntries
  /\ UNCHANGED <<srcEntries, disk, alive, persisted, boots>>
  /\ UNCHANGED <<cacheVars, auxVars>>

\* SourceIndexCache.LenHint(), under the mutex.
LenHint ==
  /\ alive
  /\ lastOp' = [op |-> "LenHint", before |-> nextSourceIndex,
                ret |-> nextSourceIndex + someExtraRoom]
  /\ UNCHANGED <<srcEntries, globEntries, nextSourceIndex, disk, alive,
                 owner, persisted, boots>>
  /\ UNCHANGED <<cacheVars, auxVars>>

\* SourceIndexCache.Persist(): Serialize, json.Marshal, os.WriteFile.
Persist ==
  /\ alive
  /\ disk' = Serialize(srcEntries, globEntries, nextSourceIndex)
  /\ persisted' = [entries |-> srcEntries, globEntries |-> globEntries,
                   nextSourceIndex |-> nextSourceIndex]
  /\ lastOp' = [op |-> "Persist"]
  /\ UNCHANGED <<srcEntries, globEntries, nextSourceIndex, alive, owner, boots>>
  /\ UNCHANGED <<cacheVars, auxVars>>

\* SourceIndexCache.Deserialize of the file's record: the three fields of
\* the allocator are replaced.
Deserialize(file) ==
  /\ srcEntries' \in DeserializeEntries(file)
  /\ globEntries' = file.GlobEntries
  /\ nextSourceIndex' = file.NextSourceIndex

\* GetFromDisk on the running allocator: the file is read and Deserialize
\* replaces the allocator state.
Load ==
  /\ alive
  /\ ~LoadPanics(disk)
  /\ Deserialize(disk)
  /\ lastOp' = [op |-> "Load"]
  /\ UNCHANGED <<disk, alive, owner, persisted, boots>>
  /\ UNCHANGED <<cacheVars, auxVars>>

\* A new process starts after the last one persisted: GetCacheFromDisk makes
\* a cache set (MakeCacheSet) and LoadCacheFromDir installs in its allocator
\* the three fields GetFromDisk read into a fresh one.
GetCacheFromDisk ==
  /\ lastOp.op = "Persist"
  /\ boots < MaxBoots
  /\ ~LoadPanics(disk)
  /\ Deserialize(disk)
  /\ boots' = boots + 1
  /\ lastOp' = [op |-> "Load"]
  /\ UNCHANGED <<disk, alive, owner, persisted>>
  /\ UNCHANGED <<cacheVars, auxVars>>

\* The same start, when GetFromDisk panics: the new process ends with the
\* fresh allocator of MakeCacheSet.
GetCacheFromDiskPanic ==
  /\ lastOp.op = "Persist"
  /\ boots < MaxBoots
  /\ LoadPanics(disk)
  /\ srcEntries' = EmptyMap
  /\ globEntries' = EmptyMap
  /\ nextSourceIndex' = RuntimeSourceIndex + 1
  /\ alive' = FALSE
  /\ boots' = boots + 1
  /\ lastOp' = [op |-> "LoadPanic"]
  /\ UNCHANGED <<disk, owner, persisted>>
  /\ UNCHANGED <<cacheVars, auxVars>>

\* What json.Marshal hands to Persist and to SaveCacheEntryToFile: some
\* bytes, or the empty byte string their len(...) != 0 guards test for.
MarshalOutcomes == {"bytes", "empty"}

\* What os.WriteFile returns: nil, or an error.
WriteOutcomes == {"written", "failed"}

\* A Persist that writes whatever json.Marshal produced, without the guard
\* on its length.
PersistWithoutGuard(marshal, write) ==
  /\ alive
  /\ disk' = IF marshal = "empty" \/ write = "failed" THEN TruncatedFile
             ELSE Serialize(srcEntries, globEntries, nextSourceIndex)
  /\ persisted' = persisted
  /\ lastOp' = [op |-> "Persist", payload |-> marshal, write |-> write,
                err |-> FALSE, before |-> disk]
  /\ UNCHANGED <<srcEntries, globEntries, nextSourceIndex, alive, owner, boots>>
  /\ UNCHANGED <<cacheVars, auxVars>>

\* SourceIndexCache.Persist() with the outcomes of json.Marshal and of
\* os.WriteFile: a non-empty payload is written and nil is returned, whether
\* or not the write failed (the error is only printed); an empty payload is
\* not written and an error is returned.  A failed write leaves the old
\* file or a truncated one.
PersistWithIO(marshal, write) ==
  /\ alive
  /\ IF marshal # "empty"
     THEN /\ disk' \in IF write = "written"
                       THEN {Serialize(srcEntries, globEntries, nextSourceIndex)}
                       ELSE {disk, TruncatedFile}
          /\ persisted' = IF write = "written"
                          THEN [entries |-> srcEntries,
                                globEntries |-> globEntries,
                                nextSourceIndex |-> nextSourceIndex]
                          ELSE persisted
          /\ lastOp' = [op |-> "Persist", payload |-> marshal, write |-> write,
                        err |-> FALSE, before |-> disk]
     ELSE /\ disk' = disk
          /\ persisted' = persisted
          /\ lastOp' = [op |-> "Persist", payload |-> marshal, write |-> "none",
                        err |-> TRUE, before |-> disk]
  /\ UNCHANGED <<srcEntries, globEntries, nextSourceIndex, alive, owner, boots>>
  /\ UNCHANGED <<cacheVars, auxVars>>

\* ------------------------------------------------------------ record files

\* The filePath arguments SaveCacheEntryToFile is called with.
FilePaths == {"r1.json", "r2.json"}

\* jsCacheEntry.MarshalJSON: the record of an entry (the serialized AST, the
\* source and ok; Msgs is a fixed placeholder).
Record(e) ==
  [Ast |-> e.ast, Source |-> e.source, Ok |-> e.ok,
   Msgs |-> <<"first", "second", "third">>]

\* json.Marshal(*entry) can also fail with an error.
SaveMarshalOutcomes == MarshalOutcomes \cup {"error"}

\* SaveCacheEntryToFile: cache.mutex.Lock().  The entry read under the
\* mutex is dereferenced, so the call is made for a key the store holds.
SaveLock(filePath, entryPath) ==
  /\ lang = "js"
  /\ svPc = "idle"
  /\ mutex = NoThread
  /\ entries[entryPath] # NoEntry
  /\ mutex' = "saver"
  /\ svPc' = "locked"
  /\ svKey' = <<filePath, entryPath>>
  /\ UNCHANGED <<lang, harness, entries, pc, call, entry, log, parsed, found,
                 ret, ldPc, ldEntry, lastInsert, hist>>
  /\ UNCHANGED <<files, lastSave, allocVars, raceVars, caseVars, loadVars>>

\* A save that drops the entry from the store when its write fails.
SaveWriteDroppingEntry(marshal, write) ==
  /\ svPc = "locked"
  /\ mutex = "saver"
  /\ entries' = IF marshal = "bytes" /\ write = "failed"
                THEN [entries EXCEPT ![svKey[2]] = NoEntry]
                ELSE entries
  /\ files' = IF marshal = "bytes" /\ write = "written"
              THEN [files EXCEPT ![svKey[1]] = Record(entries[svKey[2]])]
              ELSE files
  /\ lastSave' = [op |-> "Save", key |-> svKey[2], payload |-> marshal,
                  write |-> IF marshal = "bytes" THEN write ELSE "none",
                  err |-> (marshal = "error" \/
                           (marshal = "bytes" /\ write = "failed")),
                  before |-> files]
  /\ mutex' = NoThread
  /\ svPc' = "idle"
  /\ svKey' = <<>>
  /\ UNCHANGED <<lang, harness, pc, call, entry, log, parsed, found,
                 ret, ldPc, ldEntry, lastInsert, hist>>
  /\ UNCHANGED <<allocVars, raceVars, caseVars, loadVars>>

\* SaveCacheEntryToFile, from the read of the entry to the deferred Unlock:
\* a marshal error is returned; a non-empty payload is written and the
\* result of os.WriteFile returned (a failed write leaves the old file or a
\* truncated one); an empty payload is not written and nil is returned.
SaveWrite(marshal, write) ==
  /\ svPc = "locked"
  /\ mutex = "saver"
  /\ IF marshal = "error"
     THEN /\ files' = files
          /\ lastSave' = [op |-> "Save", key |-> svKey[2], payload |-> marshal,
                          write |-> "none", err |-> TRUE, before |-> files]
     ELSE IF marshal # "empty"
     THEN /\ files' \in
               IF write = "written"
               THEN {[files EXCEPT ![svKey[1]] = Record(entries[svKey[2]])]}
               ELSE {files, [files EXCEPT ![svKey[1]] = TruncatedFile]}
          /\ lastSave' = [op |-> "Save", key |-> svKey[2], payload |-> marshal,
                          write |-> write, err |-> (write = "failed"),
                          before |-> files]
     ELSE /\ files' = files
          /\ lastSave' = [op |-> "Save", key |-> svKey[2], payload |-> marshal,
                          write |-> "none", err |-> FALSE, before |-> files]
  /\ mutex' = NoThread
  /\ svPc' = "idle"
  /\ svKey' = <<>>
  /\ UNCHANGED <<lang, harness, entries, pc, call, entry, log, parsed, found,
                 ret, ldPc, ldEntry, lastInsert, hist>>
  /\ UNCHANGED <<allocVars, raceVars, caseVars, loadVars>>

\* --------------------------------------------------------- record naming

\* Contents and identifier names as character sequences, chosen so that
\* different (contents, name) pairs can concatenate to the same text.
NamedContents == { <<>>, <<"a">>, <<"a", "b">> }

NamedIdentifiers == { <<>>, <<"b">>, <<"c">>, <<"b", "c">> }

NamedSources ==
  [contents : NamedContents, identifierName : NamedIdentifiers]

\* my_helpers.HashString: the hex text of the SHA-256 of the input, taken
\* as an injective function of the input.
HashString(input) == <<"sha256">> \o input

\* A record name made from the contents alone.
JsonPathOfContents(source) ==
  <<"/Users/maxa/projects/esbuild/cache_jsons/">>
    \o HashString(source.contents) \o <<".json">>

\* jsCacheEntry.getJsonPath.
getJsonPath(source) ==
  <<"/Users/maxa/projects/esbuild/cache_jsons/">>
    \o HashString(source.contents \o source.identifierName) \o <<".json">>

\* getJsonPath is called for two entries.
GetJsonPaths(a, b) ==
  /\ named' = [op |-> "getJsonPath", a |-> a, b |-> b,
               pathA |-> getJsonPath(a), pathB |-> getJsonPath(b)]
  /\ UNCHANGED <<cacheVars, allocVars, raceVars, saveVars, loadVars>>
  /\ UNCHANGED <<damage, sample, result, symbols>>

NameNext == \E a, b \in NamedSources : GetJsonPaths(a, b)

\* -------------------------------------------------------------------- refs

\* A uint32 is a pair <<hi, lo>> of 16-bit halves: its value is
\* hi * 65536 + lo.

RECURSIVE FormatUint32(_)
\* The verb %d of fmt.Sprintf for a uint32: its decimal digits, by repeated
\* division by ten.
FormatUint32(v) ==
  LET t == (v[1] % 10) * 65536 + v[2]
      q == <<v[1] \div 10, t \div 10>>
  IN IF q = <<0, 0>> THEN <<DigitChars[(t % 10) + 1]>>
     ELSE FormatUint32(q) \o <<DigitChars[(t % 10) + 1]>>

RECURSIVE ParseUint32(_, _)
\* The verb %d of fmt.Sscanf into a uint32: strconv.ParseUint of the digits,
\* then the check that the value fits 32 bits; ScanError where it does not.
ParseUint32(acc, ds) ==
  IF ds = <<>> THEN acc
  ELSE LET lo == acc[2] * 10 + DigitVal(Head(ds))
           hi == acc[1] * 10 + (lo \div 65536)
       IN IF hi >= 65536 THEN ScanError
          ELSE ParseUint32(<<hi, lo % 65536>>, Tail(ds))

\* A ToString that writes the two indices with a single "!" between them.
RefToStringShortMark(ref) ==
  FormatUint32(ref.SourceIndex) \o <<"!">> \o FormatUint32(ref.InnerIndex)

\* Ref.ToString: fmt.Sprintf("%d!~!%d", ref.SourceIndex, ref.InnerIndex).
RefToString(ref) ==
  FormatUint32(ref.SourceIndex) \o <<"!", "~", "!">>
    \o FormatUint32(ref.InnerIndex)

\* Ref.FromString: fmt.Sscanf(formattedString, "%d!~!%d", &SourceIndex,
\* &InnerIndex) into a zero Ref; the error of Sscanf is dropped, so what was
\* scanned before the failure stays and the rest is zero.
RefFromString(str) ==
  LET s1 == SkipSpace(str)
      d1 == ScanDigits(s1)
      v1 == ParseUint32(<<0, 0>>, d1)
      s2 == SubSeq(s1, Len(d1) + 1, Len(s1))
      s3 == SkipSpace(SubSeq(s2, 4, Len(s2)))
      d2 == ScanDigits(s3)
      v2 == ParseUint32(<<0, 0>>, d2)
  IN IF d1 = <<>> \/ v1 = ScanError
     THEN [SourceIndex |-> <<0, 0>>, InnerIndex |-> <<0, 0>>]
     ELSE IF Len(s2) < 3 \/ SubSeq(s2, 1, 3) # <<"!", "~", "!">>
               \/ d2 = <<>> \/ v2 = ScanError
          THEN [SourceIndex |-> v1, InnerIndex |-> <<0, 0>>]
          ELSE [SourceIndex |-> v1, InnerIndex |-> v2]

\* ----------------------------------------------------------------- Index32

\* An Index32 is [flippedBits], a uint32; ^x flips the 32 bits of x.

\* MakeIndex32: Index32{flippedBits: ^index}.
MakeIndex32(index) == [flippedBits |-> <<65535 - index[1], 65535 - index[2]>>]

\* Index32.IsValid: i.flippedBits != 0.
IsValid(i) == i.flippedBits # <<0, 0>>

\* Index32.GetIndex: ^i.flippedBits.
GetIndex(i) == <<65535 - i.flippedBits[1], 65535 - i.flippedBits[2]>>

\* A ToString that writes the indices (GetIndex) instead of the raw bits.
ImportRecordToStringByIndex(record) ==
  <<"SourceIndex:", " ">> \o FormatUint32(GetIndex(record.SourceIndex))
    \o <<" ", "CopySourceIndex:", " ">>
    \o FormatUint32(GetIndex(record.CopySourceIndex))

\* ImportRecord.ToString, the part "SourceIndex: %d CopySourceIndex: %d" of
\* its template: the flippedBits of the two fields in decimal.
ImportRecordToString(record) ==
  <<"SourceIndex:", " ">> \o FormatUint32(record.SourceIndex.flippedBits)
    \o <<" ", "CopySourceIndex:", " ">>
    \o FormatUint32(record.CopySourceIndex.flippedBits)

\* ImportRecord.FromString, the same part: each %d is scanned into an int
\* (64 bits, so no text of a uint32 overflows it) and converted with
\* uint32(...), which keeps the low 32 bits, into flippedBits; a text that
\* does not match the template is a scan error.
ImportRecordFromString(formattedString) ==
  LET RECURSIVE ParseInt(_, _)
      ParseInt(acc, ds) ==
        IF ds = <<>> THEN acc
        ELSE LET lo == acc[2] * 10 + DigitVal(Head(ds))
             IN ParseInt(<<acc[1] * 10 + (lo \div 65536), lo % 65536>>,
                         Tail(ds))
      uint32(x) == <<x[1] % 65536, x[2]>>
      s1 == SkipSpace(SubSeq(formattedString, 2, Len(formattedString)))
      d1 == ScanDigits(s1)
      s2 == SkipSpace(SubSeq(s1, Len(d1) + 1, Len(s1)))
      s3 == SkipSpace(SubSeq(s2, 2, Len(s2)))
      d2 == ScanDigits(s3)
  IN IF \/ formattedString = <<>> \/ Head(formattedString) # "SourceIndex:"
        \/ d1 = <<>> \/ s2 = <<>> \/ Head(s2) # "CopySourceIndex:"
        \/ d2 = <<>>
     THEN ScanError
     ELSE [SourceIndex |-> [flippedBits |-> uint32(ParseInt(<<0, 0>>, d1))],
           CopySourceIndex |->
             [flippedBits |-> uint32(ParseInt(<<0, 0>>, d2))]]

\* ----------------------------------------------------------------- symbols

\* InvalidRef: Ref{^uint32(0), ^uint32(0)}.
InvalidRef ==
  [SourceIndex |-> <<65535, 65535>>, InnerIndex |-> <<65535, 65535>>]

\* The refs of a SymbolMap of two files with two symbols each, in the order
\* of SymbolsForSource.  Of a Symbol the model keeps the Link; the other
\* fields (those MergeContentsWith adds up) do not bear on the links.
SymbolOrder ==
  << [SourceIndex |-> <<0, 0>>, InnerIndex |-> <<0, 0>>],
     [SourceIndex |-> <<0, 0>>, InnerIndex |-> <<0, 1>>],
     [SourceIndex |-> <<0, 1>>, InnerIndex |-> <<0, 0>>],
     [SourceIndex |-> <<0, 1>>, InnerIndex |-> <<0, 1>>] >>

SymbolRefs == { SymbolOrder[i] : i \in DOMAIN SymbolOrder }

RECURSIVE MergeSymbolsWithoutLink(_, _, _)
\* A MergeSymbols that leaves out the final write of old's Link.
MergeSymbolsWithoutLink(map, old, new) ==
  IF old = new THEN [symbols |-> map, ref |-> new]
  ELSE IF map[old] # InvalidRef
  THEN LET m == MergeSymbolsWithoutLink(map, map[old], new)
       IN [symbols |-> [m.symbols EXCEPT ![old] = m.ref], ref |-> m.ref]
  ELSE IF map[new] # InvalidRef
  THEN LET m == MergeSymbolsWithoutLink(map, old, map[new])
       IN [symbols |-> [m.symbols EXCEPT ![new] = m.ref], ref |-> m.ref]
  ELSE [symbols |-> map, ref |-> new]

RECURSIVE MergeSymbolsWithoutSameCheck(_, _, _)
\* A MergeSymbols without the test old == new.
MergeSymbolsWithoutSameCheck(map, old, new) ==
  IF map[old] # InvalidRef
  THEN LET m == MergeSymbolsWithoutSameCheck(map, map[old], new)
       IN [symbols |-> [m.symbols EXCEPT ![old] = m.ref], ref |-> m.ref]
  ELSE IF map[new] # InvalidRef
  THEN LET m == MergeSymbolsWithoutSameCheck(map, old, map[new])
       IN [symbols |-> [m.symbols EXCEPT ![new] = m.ref], ref |-> m.ref]
  ELSE [symbols |-> [map EXCEPT ![old] = new], ref |-> new]

RECURSIVE FollowSymbols(_, _)
\* FollowSymbols: the ref itself where its Link is invalid; otherwise what
\* following the Link returns, written into the Link where it differs.
\* The result is the map, the ref returned and the number of writes.
FollowSymbols(map, ref) ==
  IF map[ref] = InvalidRef
  THEN [symbols |-> map, ref |-> ref, writes |-> 0]
  ELSE LET rest == FollowSymbols(map, map[ref])
       IN IF rest.symbols[ref] # rest.ref
          THEN [symbols |-> [rest.symbols EXCEPT ![ref] = rest.ref],
                ref |-> rest.ref, writes |-> rest.writes + 1]
          ELSE rest

\* A FollowAllSymbols that follows the symbols of the first file only.
FollowAllSymbolsFirstFile(map) ==
  FollowSymbols(FollowSymbols(map, SymbolOrder[1]).symbols,
                SymbolOrder[2]).symbols

\* FollowAllSymbols: FollowSymbols for every symbol, file by file.
FollowAllSymbols(map) ==
  LET RECURSIVE Each(_, _)
      Each(m, i) ==
        IF i > Len(SymbolOrder) THEN m
        ELSE Each(FollowSymbols(m, SymbolOrder[i]).symbols, i + 1)
  IN Each(map, 1)

RECURSIVE MergeSymbols(_, _, _)
\* MergeSymbols: nothing for old = new; where old has a Link, the Link is
\* merged with new and set to the result; else where new has a Link, old
\* is merged with the Link and the Link set to the result; else old is
\* linked to new.  The result is the map and the ref returned.
MergeSymbols(map, old, new) ==
  IF old = new THEN [symbols |-> map, ref |-> new]
  ELSE IF map[old] # InvalidRef
  THEN LET m == MergeSymbols(map, map[old], new)
       IN [symbols |-> [m.symbols EXCEPT ![old] = m.ref], ref |-> m.ref]
  ELSE IF map[new] # InvalidRef
  THEN LET m == MergeSymbols(map, old, map[new])
       IN [symbols |-> [m.symbols EXCEPT ![new] = m.ref], ref |-> m.ref]
  ELSE [symbols |-> [map EXCEPT ![old] = new], ref |-> new]

\* A call of MergeSymbols(symbols, old, new).
MergeSymbolsCall(old, new) ==
  /\ symbols' = MergeSymbols(symbols, old, new).symbols
  /\ result' = [op |-> "MergeSymbols", old |-> old, new |-> new,
                before |-> symbols,
                ref |-> MergeSymbols(symbols, old, new).ref]
  /\ UNCHANGED <<cacheVars, allocVars, raceVars, saveVars, loadVars, named,
                 damage, sample>>

\* A call of FollowSymbols(symbols, ref).
FollowSymbolsCall(ref) ==
  /\ symbols' = FollowSymbols(symbols, ref).symbols
  /\ result' = [op |-> "FollowSymbols", of |-> ref, before |-> symbols,
                ref |-> FollowSymbols(symbols, ref).ref,
                writes |-> FollowSymbols(symbols, ref).writes]
  /\ UNCHANGED <<cacheVars, allocVars, raceVars, saveVars, loadVars, named,
                 damage, sample>>

\* A call of FollowAllSymbols(symbols).
FollowAllSymbolsCall ==
  /\ symbols' = FollowAllSymbols(symbols)
  /\ result' = [op |-> "FollowAllSymbols", before |-> symbols]
  /\ UNCHANGED <<cacheVars, allocVars, raceVars, saveVars, loadVars, named,
                 damage, sample>>

SymbolNext ==
  \/ \E old, new \in SymbolRefs : MergeSymbolsCall(old, new)
  \/ \E ref \in SymbolRefs : FollowSymbolsCall(ref)
  \/ FollowAllSymbolsCall

\* ------------------------------------------------------------------ scopes

\* A scope tree is a heap: scope number -> [Parent, Children], with 0 for a
\* nil pointer.  getNameByScope names a scope by the address of a variable;
\* distinct scopes are taken to get distinct names, here their numbers, and
\* nil gets the empty name, here 0.

RECURSIVE flattenScopeBreadthFirst(_, _, _)
\* A flattening that visits the scopes level by level: the children of a
\* scope wait behind the scopes already to visit.
flattenScopeBreadthFirst(tree, todo, flatScopes) ==
  IF todo = <<>> THEN flatScopes
  ELSE LET root == Head(todo) IN
       IF root = 0
       THEN Append(flatScopes, [Name |-> 0, Parent |-> 0, Children |-> <<>>])
       ELSE
       flattenScopeBreadthFirst(tree, Tail(todo) \o tree[root].Children,
                    Append(flatScopes,
                           [Name |-> root, Parent |-> tree[root].Parent,
                            Children |-> tree[root].Children]))

RECURSIVE flattenScope(_, _, _)
\* flattenScope, depth first: the record of a scope, then those of the
\* scopes below its first child, then those below its second, and so on.
\* `todo` holds the scopes still to visit, the next one first.  A nil scope
\* is dereferenced (root.Parent) and the call panics: the list then ends
\* with a record of the empty name, which no scope has.
flattenScope(tree, todo, flatScopes) ==
  IF todo = <<>> THEN flatScopes
  ELSE LET root == Head(todo) IN
       IF root = 0
       THEN Append(flatScopes, [Name |-> 0, Parent |-> 0, Children |-> <<>>])
       ELSE
       flattenScope(tree, tree[root].Children \o Tail(todo),
                    Append(flatScopes,
                           [Name |-> root, Parent |-> tree[root].Parent,
                            Children |-> tree[root].Children]))

\* createScopeTreeFromSerialized: record j of data becomes the new scope j
\* (ScopeFromSerialized: no parent, and Children is
\* make([]*Scope, len(data.Children)), that many nil pointers) and
\* scopesMap maps its name to it, a later record
\* of the same name replacing an earlier one; then, record by record, the
\* scope is attached to the scope of its parent name, or is the root where
\* no scope has that name.  The result is the heap and the root.
createScopeTreeFromSerialized(data) ==
  LET scopesMap(name) ==
        IF \E j \in 1..Len(data) : data[j].Name = name
        THEN CHOOSE j \in 1..Len(data) :
               /\ data[j].Name = name
               /\ \A k \in (j + 1)..Len(data) : data[k].Name # name
        ELSE 0
      RECURSIVE Attach(_, _, _)
      Attach(heap, root, j) ==
        IF j > Len(data) THEN [heap |-> heap, root |-> root]
        ELSE LET parent == scopesMap(data[j].Parent)
                 child == scopesMap(data[j].Name)
             IN IF parent = 0
                THEN Attach(heap, child, j + 1)
                ELSE Attach([heap EXCEPT
                               ![child].Parent = parent,
                               ![parent].Children =
                                 Append(heap[parent].Children, child)],
                            root, j + 1)
  IN Attach([j \in 1..Len(data) |->
               [Parent |-> 0,
                Children |-> [i \in 1..Len(data[j].Children) |-> 0]]], 0, 1)

\* Scope.UnmarshalJSON on a receiver s: the tree is built (twice, the first
\* one is dropped) and the root is copied into s, *s = *root.  s is the
\* scope after the last one of the heap.
ScopeUnmarshalJSON(scopes) ==
  LET built == createScopeTreeFromSerialized(scopes)
      s == Len(scopes) + 1
  IN [heap |-> Append(built.heap, built.heap[built.root]), root |-> s]

\* ----------------------------------------------------------------- numbers

\* A float64 is [class, neg, digits, exp]: class "inf", "nan" or "finite",
\* the sign, and for a finite value its shortest decimal digits d1 d2 ...
\* and the exponent of d1.d2... (zero is the digit 0 with exponent 0).

\* The finite values Expr.MarshalJSON writes for +Inf, -Inf and NaN:
\* math.MaxFloat64, math.SmallestNonzeroFloat64 and -12312333.
NumberStandIns ==
  [posInf |-> [class |-> "finite", neg |-> FALSE, exp |-> 308,
               digits |-> <<"1", "7", "9", "7", "6", "9", "3", "1", "3",
                            "4", "8", "6", "2", "3", "1", "5", "7">>],
   negInf |-> [class |-> "finite", neg |-> FALSE, exp |-> 0 - 324,
               digits |-> <<"5">>],
   nan |-> [class |-> "finite", neg |-> TRUE, exp |-> 7,
            digits |-> <<"1", "2", "3", "1", "2", "3", "3", "3">>]]

\* Expr.MarshalJSON of an ENumber: the stand-in is taken for +Inf, -Inf and
\* NaN, and json.Marshal writes the float64 as text (here always with an
\* exponent; encoding/json writes exponents from -6 to 20 in plain notation,
\* which the same parser reads back).
ExprMarshalJSON(num) ==
  LET v == IF num.class = "inf" /\ ~num.neg THEN NumberStandIns.posInf
           ELSE IF num.class = "inf" THEN NumberStandIns.negInf
           ELSE IF num.class = "nan" THEN NumberStandIns.nan
           ELSE num
  IN (IF v.neg THEN <<"-">> ELSE <<>>)
       \o <<Head(v.digits), ".">> \o Tail(v.digits) \o <<"e">>
       \o (IF v.exp < 0 THEN <<"-">> \o FormatUint(0 - v.exp)
           ELSE <<"+">> \o FormatUint(v.exp))

\* An Expr.UnmarshalJSON that keeps the float64 json.Unmarshal read.
ExprUnmarshalJSONAsRead(text) ==
  LET neg == Head(text) = "-"
      s1 == IF neg THEN Tail(text) ELSE text
      frac == ScanDigits(SubSeq(s1, 3, Len(s1)))
      s2 == SubSeq(s1, Len(frac) + 4, Len(s1))
  IN [class |-> "finite", neg |-> neg, digits |-> <<Head(s1)>> \o frac,
      exp |-> IF Head(s2) = "-" THEN 0 - DigitsValue(0, Tail(s2))
              ELSE DigitsValue(0, Tail(s2))]

\* Expr.UnmarshalJSON of an ENumber: json.Unmarshal reads the float64 from
\* the text, and a value equal to a stand-in becomes +Inf, -Inf or NaN.
ExprUnmarshalJSON(text) ==
  LET v == ExprUnmarshalJSONAsRead(text) IN
  IF v = NumberStandIns.posInf
  THEN [class |-> "inf", neg |-> FALSE, digits |-> <<>>, exp |-> 0]
  ELSE IF v = NumberStandIns.negInf
  THEN [class |-> "inf", neg |-> TRUE, digits |-> <<>>, exp |-> 0]
  ELSE IF v = NumberStandIns.nan
  THEN [class |-> "nan", neg |-> FALSE, digits |-> <<>>, exp |-> 0]
  ELSE v

\* ---------------------------------------------------------------- envelope

\* The envelope fields of an AST that are maps of Refs or Refs:
\* [ConstValues, MangledProps, ExportsRef, ModuleRef, WrapperRef].

\* AST.SerializeForJson: the Ref keys of ConstValues and the three Refs are
\* written with Ref.ToString, a ConstValue with ConstValue.ToString
\* ("Number: %v Kind: %v"); MangledProps is not among the fields the
\* SerializedAST literal sets, so it stays nil.
SerializeForJson(a) ==
  [ConstValues |->
     [str \in { RefToString(ref) : ref \in DOMAIN a.ConstValues } |->
        LET ref == CHOOSE r \in DOMAIN a.ConstValues : RefToString(r) = str
        IN <<"Number: ", a.ConstValues[ref].Number, " Kind: ",
             a.ConstValues[ref].Kind>>],
   MangledProps |-> EmptyMap,
   ExportsRef |-> RefToString(a.ExportsRef),
   ModuleRef |-> RefToString(a.ModuleRef),
   WrapperRef |-> RefToString(a.WrapperRef)]

\* SerializedAST.DeserializeFromJson: the keys and the three Refs are read
\* with Ref.FromString; ConstValue.FromString hands fmt.Sscanf the fields
\* c.Number and c.Kind by value, so nothing is stored and the zero
\* ConstValue of the caller comes back with a nil error; a.MangledProps is
\* never assigned.
DeserializeFromJson(serialized) ==
  [ConstValues |->
     [ref \in { RefFromString(str) : str \in DOMAIN serialized.ConstValues }
        |-> [Number |-> 0, Kind |-> 0]],
   MangledProps |-> EmptyMap,
   ExportsRef |-> RefFromString(serialized.ExportsRef),
   ModuleRef |-> RefFromString(serialized.ModuleRef),
   WrapperRef |-> RefFromString(serialized.WrapperRef)]

\* ------------------------------------------------------------ variant tags

\* The node variants of each family: the types with an isStmt, isExpr or
\* isBinding method.  The tag of a variant is reflect.TypeOf(Data).String(),
\* "*js_ast." and the name of the type; the model writes the name alone.
Variants ==
  [stmt |-> { "SBlock", "SComment", "SDebugger", "SDirective", "SEmpty",
            "STypeScript", "SExportClause", "SExportFrom", "SExportDefault",
            "SExportStar", "SExportEquals", "SLazyExport", "SExpr", "SEnum",
            "SNamespace", "SFunction", "SClass", "SLabel", "SIf", "SFor", "SForIn",
            "SForOf", "SDoWhile", "SWhile", "SWith", "STry", "SSwitch", "SImport",
            "SReturn", "SThrow", "SLocal", "SBreak", "SContinue" },
   expr |-> { "EArray", "EUnary", "EBinary", "EBoolean", "ESuper", "ENull",
            "EUndefined", "EThis", "ENew", "ENewTarget", "EImportMeta", "ECall",
            "EDot", "EIndex", "EArrow", "EFunction", "EClass", "EIdentifier",
            "EImportIdentifier", "EPrivateIdentifier", "ENameOfSymbol",
            "EJSXElement", "EJSXText", "EMissing", "ENumber", "EBigInt", "EObject",
            "ESpread", "EString", "ETemplate", "ERegExp", "EInlinedEnum",
            "EAnnotation", "EAwait", "EYield", "EIf", "ERequireString",
            "ERequireResolveString", "EImportString", "EImportCall" },
   binding |-> { "BMissing", "BIdentifier", "BArray", "BObject" }]

\* The keys init() puts into mapping, exprMapping and bindingMapping.
Mapping ==
  [stmt |-> { "SBlock", "SComment", "SDebugger", "SDirective", "SEmpty",
            "STypeScript", "SExportClause", "SExportFrom", "SExportDefault",
            "SExportStar", "SExportEquals", "SLazyExport", "SExpr", "SEnum",
            "SNamespace", "SFunction", "SClass", "SLabel", "SIf", "SFor", "SForIn",
            "SForOf", "SDoWhile", "SWhile", "SWith", "STry", "SSwitch", "SImport",
            "SReturn", "SThrow", "SLocal", "SBreak", "SContinue" },
   expr |-> { "ENew", "EArray", "EUnary", "EBinary", "EBoolean", "ESuper", "ENull",
            "EUndefined", "EThis", "ENewTarget", "EImportMeta", "ECall", "EDot",
            "EIndex", "EArrow", "EFunction", "EClass", "EIdentifier",
            "EImportIdentifier", "EPrivateIdentifier", "ENameOfSymbol",
            "EJSXElement", "EJSXText", "EMissing", "ENumber", "EBigInt", "EObject",
            "ESpread", "EString", "ETemplate", "ERegExp", "EInlinedEnum",
            "EAnnotation", "EAwait", "EYield", "EIf", "ERequireString",
            "ERequireResolveString", "EImportString", "EImportCall" },
   binding |-> { "BMissing", "BIdentifier", "BArray", "BObject" }]

\* A decode of a node that puts the zero Loc into an empty slot.
NodeUnmarshalJSONDroppingLoc(family, raw) ==
  IF raw.TypeName = "" THEN [Data |-> "", Loc |-> 0]
  ELSE IF raw.TypeName \notin Mapping[family] THEN [panic |-> TRUE]
  ELSE [Data |-> raw.TypeName, Loc |-> raw.Loc]

\* Stmt.UnmarshalJSON, Expr.UnmarshalJSON, Binding.UnmarshalJSON: an empty
\* TypeName gives Data nil and the Loc read; any other TypeName is looked up
\* in the family's table and a new value of the type found there is filled
\* from Data; for a TypeName that is not in the table
\* reflect.TypeOf(nil).Elem() panics.  Data "" is nil, any other Data is the
\* variant of the value.
NodeUnmarshalJSON(family, raw) ==
  IF raw.TypeName = "" THEN [Data |-> "", Loc |-> raw.Loc]
  ELSE IF raw.TypeName \notin Mapping[family] THEN [panic |-> TRUE]
  ELSE [Data |-> raw.TypeName, Loc |-> raw.Loc]

\* ---------------------------------------------------------------- opcodes

\* The OpCode constants: iota numbers them from 0 in the order of the const
\* block.
OpCode ==
  LET names == <<
        "UnOpPos", "UnOpNeg", "UnOpCpl", "UnOpNot", "UnOpVoid", "UnOpTypeof",
        "UnOpDelete", "UnOpPreDec", "UnOpPreInc", "UnOpPostDec",
        "UnOpPostInc", "BinOpAdd", "BinOpSub", "BinOpMul", "BinOpDiv",
        "BinOpRem", "BinOpPow", "BinOpLt", "BinOpLe", "BinOpGt", "BinOpGe",
        "BinOpIn", "BinOpInstanceof", "BinOpShl", "BinOpShr", "BinOpUShr",
        "BinOpLooseEq", "BinOpLooseNe", "BinOpStrictEq", "BinOpStrictNe",
        "BinOpNullishCoalescing", "BinOpLogicalOr", "BinOpLogicalAnd",
        "BinOpBitwiseOr", "BinOpBitwiseAnd", "BinOpBitwiseXor", "BinOpComma",
        "BinOpAssign", "BinOpAddAssign", "BinOpSubAssign", "BinOpMulAssign",
        "BinOpDivAssign", "BinOpRemAssign", "BinOpPowAssign",
        "BinOpShlAssign", "BinOpShrAssign", "BinOpUShrAssign",
        "BinOpBitwiseOrAssign", "BinOpBitwiseAndAssign",
        "BinOpBitwiseXorAssign", "BinOpNullishCoalescingAssign",
        "BinOpLogicalOrAssign", "BinOpLogicalAndAssign" >>
  IN [name \in { names[i] : i \in DOMAIN names } |->
        (CHOOSE i \in DOMAIN names : names[i] = name) - 1]

\* An IsLeftAssociative without the test for BinOpPow.
IsLeftAssociativeWithPow(op) ==
  op >= OpCode["BinOpAdd"] /\ op < OpCode["BinOpComma"]

\* OpCode.IsLeftAssociative.
IsLeftAssociative(op) ==
  op >= OpCode["BinOpAdd"] /\ op < OpCode["BinOpComma"]
    /\ op # OpCode["BinOpPow"]

\* OpCode.IsRightAssociative.
IsRightAssociative(op) ==
  op >= OpCode["BinOpAssign"] \/ op = OpCode["BinOpPow"]

\* The values the conversions are applied to.
Samples ==
  LET word == { <<0, 0>>, <<0, 1>>, <<0, 9>>, <<0, 10>>, <<0, 65535>>,
                <<1, 0>>, <<32767, 65535>>, <<32768, 0>>, <<65535, 65534>>,
                <<65535, 65535>> }
      nd(parent, children) == [Parent |-> parent, Children |-> children]
      rf(inner) == [SourceIndex |-> <<0, 3>>, InnerIndex |-> <<0, inner>>]
      fin(neg, digits, exp) ==
        [class |-> "finite", neg |-> neg, digits |-> digits, exp |-> exp]
  IN { [fam |-> "ref", ref |-> [SourceIndex |-> a, InnerIndex |-> b]] :
         a \in word, b \in word }
     \cup
     { [fam |-> "scope", tree |-> t] :
         t \in { <<nd(0, <<>>)>>,
                 <<nd(0, <<2>>), nd(1, <<>>)>>,
                 <<nd(0, <<2, 3>>), nd(1, <<>>), nd(1, <<>>)>>,
                 <<nd(0, <<2>>), nd(1, <<3>>), nd(2, <<>>)>>,
                 <<nd(0, <<2, 4>>), nd(1, <<3>>), nd(2, <<>>), nd(1, <<>>)>>,
                 <<nd(0, <<3, 2>>), nd(1, <<>>), nd(1, <<4>>), nd(3, <<>>)>> } }
     \cup
     { [fam |-> "number", num |-> v] :
         v \in { [class |-> "inf", neg |-> FALSE, digits |-> <<>>, exp |-> 0],
                 [class |-> "inf", neg |-> TRUE, digits |-> <<>>, exp |-> 0],
                 [class |-> "nan", neg |-> FALSE, digits |-> <<>>, exp |-> 0],
                 NumberStandIns.posInf, NumberStandIns.negInf,
                 NumberStandIns.nan,
                 fin(FALSE, <<"0">>, 0), fin(TRUE, <<"0">>, 0),
                 fin(FALSE, <<"1">>, 0), fin(TRUE, <<"1">>, 0),
                 fin(FALSE, <<"1", "5">>, 0), fin(FALSE, <<"1">>, 0 - 1),
                 fin(FALSE, <<"1">>, 21), fin(TRUE, <<"2", "5">>, 0 - 7),
                 fin(TRUE, <<"5">>, 0 - 324),
                 fin(FALSE, <<"1", "2", "3", "1", "2", "3", "3", "3">>, 7),
                 fin(TRUE, NumberStandIns.posInf.digits, 308),
                 fin(FALSE, <<"1", "7", "9", "7", "6", "9", "3", "1", "3",
                              "4", "8", "6", "2", "3", "1", "5", "6">>, 308) } }
     \cup
     { [fam |-> "envelope",
        ast |-> [ConstValues |-> cv, MangledProps |-> mp, ExportsRef |-> er,
                 ModuleRef |-> rf(1), WrapperRef |-> rf(2)]] :
         cv \in { EmptyMap,
                  rf(4) :> [Number |-> 0, Kind |-> 0],
                  rf(4) :> [Number |-> 0, Kind |-> 1],
                  (rf(4) :> [Number |-> 7, Kind |-> 5])
                    @@ (rf(5) :> [Number |-> 0, Kind |-> 3]) },
         mp \in { EmptyMap, <<"p">> :> rf(6) },
         er \in { rf(0), [SourceIndex |-> <<65535, 65535>>,
                          InnerIndex |-> <<65535, 65535>>] } }
     \cup
     { [fam |-> "opcode", name |-> n] : n \in DOMAIN OpCode }
     \cup
     { [fam |-> "index32", index |-> a, copy |-> b] :
         a \in word, b \in {<<0, 0>>, <<0, 3>>, <<65535, 65535>>} }
     \cup
     UNION { { [fam |-> "node", family |-> f,
                node |-> [Data |-> v, Loc |-> loc]] :
                 v \in Variants[f] \cup {""}, loc \in {0, 7} } :
             f \in DOMAIN Variants }

\* A Ref is written and read back.
RefRoundTrip ==
  /\ sample.fam = "ref"
  /\ result = NoOp
  /\ result' = [op |-> "Ref", str |-> RefToString(sample.ref),
                out |-> RefFromString(RefToString(sample.ref))]
  /\ UNCHANGED <<cacheVars, allocVars, raceVars, saveVars, loadVars, named,
                 damage, sample, symbols>>

\* A scope tree is written (Scope.MarshalJSON: flattenScope from the module
\* scope, scope 1) and read back (Scope.UnmarshalJSON).  `image` is the
\* rebuilt scope of each scope of the tree: the receiver for the module
\* scope, the scope made from its record for any other.
ScopeRoundTrip ==
  /\ sample.fam = "scope"
  /\ result = NoOp
  /\ LET flat == flattenScope(sample.tree, <<1>>, <<>>)
         rebuilt == ScopeUnmarshalJSON(flat)
     IN result' = [op |-> "Scope", flat |-> flat, heap |-> rebuilt.heap,
                   root |-> rebuilt.root,
                   image |-> [o \in DOMAIN sample.tree |->
                                IF o = 1 THEN rebuilt.root
                                ELSE CHOOSE j \in 1..Len(flat) :
                                       flat[j].Name = o]]
  /\ UNCHANGED <<cacheVars, allocVars, raceVars, saveVars, loadVars, named,
                 damage, sample, symbols>>

\* The tree that was read back is written and read a second time, as when
\* an entry loaded from its record file is saved again.
ScopeSecondCycle ==
  /\ result.op = "Scope"
  /\ LET flat == flattenScope(result.heap, <<result.root>>, <<>>) IN
     result' =
       IF flat[Len(flat)].Name = 0
       THEN [op |-> "ScopeAgain", panic |-> TRUE, once |-> result.heap]
       ELSE [op |-> "ScopeAgain", panic |-> FALSE, once |-> result.heap,
             twice |-> ScopeUnmarshalJSON(flat).heap]
  /\ UNCHANGED <<cacheVars, allocVars, raceVars, saveVars, loadVars, named,
                 damage, sample, symbols>>

\* An ENumber expression is written and read back.
NumberRoundTrip ==
  /\ sample.fam = "number"
  /\ result = NoOp
  /\ result' = [op |-> "Number", str |-> ExprMarshalJSON(sample.num),
                out |-> ExprUnmarshalJSON(ExprMarshalJSON(sample.num))]
  /\ UNCHANGED <<cacheVars, allocVars, raceVars, saveVars, loadVars, named,
                 damage, sample, symbols>>

\* The envelope of an AST is written and read back.
EnvelopeRoundTrip ==
  /\ sample.fam = "envelope"
  /\ result = NoOp
  /\ result' = [op |-> "Envelope",
                out |-> DeserializeFromJson(SerializeForJson(sample.ast))]
  /\ UNCHANGED <<cacheVars, allocVars, raceVars, saveVars, loadVars, named,
                 damage, sample, symbols>>

\* A statement, expression or binding node is written (MarshalJSON: the
\* TypeName is empty for Data nil and the name of the type of Data
\* otherwise) and read back.
NodeRoundTrip ==
  /\ sample.fam = "node"
  /\ result = NoOp
  /\ LET raw == [TypeName |-> sample.node.Data, Loc |-> sample.node.Loc]
     IN result' = [op |-> "Node", raw |-> raw,
                   out |-> NodeUnmarshalJSON(sample.family, raw)]
  /\ UNCHANGED <<cacheVars, allocVars, raceVars, saveVars, loadVars, named,
                 damage, sample, symbols>>

\* The two associativity tests are called for an opcode.
Associativity ==
  /\ sample.fam = "opcode"
  /\ result = NoOp
  /\ result' = [op |-> "Associativity",
                left |-> IsLeftAssociative(OpCode[sample.name]),
                right |-> IsRightAssociative(OpCode[sample.name])]
  /\ UNCHANGED <<cacheVars, allocVars, raceVars, saveVars, loadVars, named,
                 damage, sample, symbols>>

\* MakeIndex32 of two indices, the two as the SourceIndex and the
\* CopySourceIndex of an import record, and the record written and read
\* back.
ImportRecordRoundTrip ==
  /\ sample.fam = "index32"
  /\ result = NoOp
  /\ LET record == [SourceIndex |-> MakeIndex32(sample.index),
                    CopySourceIndex |-> MakeIndex32(sample.copy)]
     IN result' = [op |-> "ImportRecord", record |-> record,
                   out |-> ImportRecordFromString(ImportRecordToString(record))]
  /\ UNCHANGED <<cacheVars, allocVars, raceVars, saveVars, loadVars, named,
                 damage, sample, symbols>>

CodecNext ==
  \/ RefRoundTrip
  \/ ImportRecordRoundTrip
  \/ Associativity
  \/ NodeRoundTrip
  \/ EnvelopeRoundTrip
  \/ NumberRoundTrip
  \/ ScopeRoundTrip
  \/ ScopeSecondCycle

\* ----------------------------------------------------------- directory load

\* The names os.ReadDir can list in the cache directory.
LoadFiles == {"f1.json", "f2.json", "f3.json"}

\* The source whose record a file holds: two files hold records of the same
\* key path.
FileSource(f) ==
  CASE f = "f1.json" -> BaseSource
    [] f = "f2.json" -> [BaseSource EXCEPT !.contents = "bad"]
    [] f = "f3.json" -> [BaseSource EXCEPT !.keyPath = "/b.js"]

\* json.Unmarshal and parseCacheEntryFromJson of the file's contents.
FileEntry(f) ==
  RestoredEntry(NewCacheEntry(FileSource(f), "o1",
                              ParserAst("js", FileSource(f), "o1"),
                              ParserOk("js", FileSource(f), "o1"),
                              ParserMsgs("js", FileSource(f), "o1")))

\* Allocator states an earlier process has persisted.
PersistedStates ==
  { [entries |-> EmptyMap, globEntries |-> EmptyMap,
     nextSourceIndex |-> RuntimeSourceIndex + 1],
    [entries |-> ([path |-> <<"a">>, kind |-> SourceIndexNormal] :> 1)
                   @@ ([path |-> <<"b">>, kind |-> SourceIndexNormal] :> 2),
     globEntries |-> EmptyMap, nextSourceIndex |-> 3],
    [entries |-> ([path |-> <<"a">>, kind |-> SourceIndexJSStubForCSS] :> 1),
     globEntries |-> (GlobKey(1, 0) :> 2), nextSourceIndex |-> 3] }

\* What can be wrong with a record file and ends the process when the file is
\* decoded: os.ReadFile fails ("unreadable"); json.Unmarshal fails
\* ("invalidJSON": parseCacheEntryFromJson then runs on what was decoded and
\* either fails, or the entry is added and parseErr panics after that); a
\* TSEnums value ParseEnumValFromString rejects ("badEnum": EnumValFromString
\* dereferences the nil result); a TypeName that is not in the dispatch
\* table ("badTag": reflect.TypeOf(nil).Elem()).
PanickingDamage == {"unreadable", "invalidJSON", "badEnum", "badTag"}

\* "badRef": a Ref string Sscanf cannot scan, e.g. ExportsRef "oops";
\* Ref.FromString drops the error of Sscanf and returns the Ref scanned so
\* far, and DeserializeFromJson goes on.  "wrongType": well-formed JSON
\* whose Ok is not a boolean; json.Unmarshal skips the field, decodes the
\* others and returns an UnmarshalTypeError, which is tested only after
\* parseCacheEntryFromJson and AddJsEntry.
FileDamage == PanickingDamage \cup {"none", "badRef", "wrongType"}

\* LoadCacheFromDir: os.ReadDir lists the directory, GetFromDisk reads the
\* state file into a local allocator, and one goroutine per listed file is
\* started.  The files hold what earlier processes (or anyone else) wrote.
LoadStart(listing, contents) ==
  /\ loadPc = "idle"
  /\ ~LoadPanics(disk)
  /\ dirFiles' = listing
  /\ damage' = contents
  /\ pending' = DOMAIN listing
  /\ loadPc' = "waiting"
  /\ UNCHANGED <<ldLocked, inserted, cacheVars, allocVars, raceVars, saveVars,
                 named, sample, result, symbols>>

\* The goroutine of a regular file whose record does not decode: the panic
\* is not recovered and ends the process.
LoadFilePanic(f) ==
  /\ alive
  /\ f \in pending
  /\ dirFiles[f]
  /\ damage[f] \in PanickingDamage
  /\ alive' = FALSE
  /\ lastOp' = [op |-> "LoadPanic"]
  /\ UNCHANGED <<srcEntries, globEntries, nextSourceIndex, disk, owner,
                 persisted, boots>>
  /\ UNCHANGED <<cacheVars, auxVars>>

\* LoadCacheFromDir: os.ReadDir fails and the error is returned.
LoadReadDirFails ==
  /\ loadPc = "idle"
  /\ loadPc' = "failed"
  /\ UNCHANGED <<dirFiles, inserted, pending, ldLocked, cacheVars, allocVars, raceVars,
                 saveVars, caseVars>>

\* The goroutine of a file that is not regular: wg.Done() and nothing else.
LoadFileSkip(f) ==
  /\ alive
  /\ f \in pending
  /\ ~dirFiles[f]
  /\ pending' = pending \ {f}
  /\ UNCHANGED <<dirFiles, inserted, ldLocked, loadPc, cacheVars, allocVars, raceVars,
                 saveVars, caseVars>>

\* The goroutine of a regular file: the record is read and decoded, and
\* AddJsEntry takes the mutex.
LoadFileLock(f) ==
  /\ alive
  /\ f \in pending
  /\ f \notin inserted
  /\ dirFiles[f]
  /\ damage[f] \notin PanickingDamage
  /\ ldLocked = "none"
  /\ mutex = NoThread
  /\ mutex' = "loader"
  /\ ldLocked' = f
  /\ UNCHANGED <<lang, harness, entries, pc, call, entry, log, parsed, found,
                 ret, ldPc, ldEntry, lastInsert, hist>>
  /\ UNCHANGED <<dirFiles, inserted, pending, loadPc, allocVars, raceVars, saveVars,
                 caseVars>>

\* The goroutine of a regular file: AddJsEntry inserts the entry that
\* parseCacheEntryFromJson made of what was decoded (for "wrongType" the
\* record without its Ok, which stays false) and unlocks.  Then parseErr is
\* tested: without an error the goroutine is done (wg.Done()).
LoadFileInsert(f) ==
  /\ alive
  /\ ldLocked = f
  /\ mutex = "loader"
  /\ LET e == IF damage[f] = "wrongType"
              THEN [FileEntry(f) EXCEPT !.ok = FALSE]
              ELSE FileEntry(f)
     IN /\ entries' = SetEntry(entries, e)
        /\ lastInsert' = [lastInsert EXCEPT ![FileSource(f).keyPath] = e]
  /\ mutex' = NoThread
  /\ ldLocked' = "none"
  /\ pending' = IF damage[f] = "wrongType" THEN pending ELSE pending \ {f}
  /\ inserted' = IF damage[f] = "wrongType" THEN inserted \cup {f}
                 ELSE inserted
  /\ UNCHANGED <<lang, harness, pc, call, entry, log, parsed, found, ret,
                 ldPc, ldEntry, hist>>
  /\ UNCHANGED <<dirFiles, loadPc, allocVars, raceVars, saveVars, caseVars>>

\* The goroutine of a file whose unmarshalling reported an error, after
\* AddJsEntry: panic(parseErr), which ends the process.
LoadFileLatePanic(f) ==
  /\ alive
  /\ f \in inserted
  /\ alive' = FALSE
  /\ lastOp' = [op |-> "LoadPanic"]
  /\ UNCHANGED <<srcEntries, globEntries, nextSourceIndex, disk, owner,
                 persisted, boots>>
  /\ UNCHANGED <<cacheVars, auxVars>>

\* A return that does not wait for the goroutines.
LoadReturnWithoutWait ==
  /\ loadPc = "waiting"
  /\ Deserialize(disk)
  /\ lastOp' = [op |-> "Load"]
  /\ loadPc' = "returned"
  /\ UNCHANGED <<disk, alive, owner, persisted, boots>>
  /\ UNCHANGED <<dirFiles, inserted, pending, ldLocked, cacheVars, raceVars, saveVars,
                 caseVars>>

\* LoadCacheFromDir: wg.Wait() returns once every goroutine is done; the
\* fields of the local allocator are installed in the cache set's and the
\* cache set is returned.
LoadReturn ==
  /\ alive
  /\ loadPc = "waiting"
  /\ pending = {}
  /\ Deserialize(disk)
  /\ lastOp' = [op |-> "Load"]
  /\ loadPc' = "returned"
  /\ UNCHANGED <<disk, alive, owner, persisted, boots>>
  /\ UNCHANGED <<dirFiles, inserted, pending, ldLocked, cacheVars, raceVars, saveVars,
                 caseVars>>

LoadNext ==
  \/ \E listing \in [LoadFiles -> BOOLEAN],
          contents \in [LoadFiles -> FileDamage] : LoadStart(listing, contents)
  \/ LoadReadDirFails
  \/ \E f \in LoadFiles : LoadFileSkip(f)
  \/ \E f \in LoadFiles : LoadFileLock(f)
  \/ \E f \in LoadFiles : LoadFileInsert(f)
  \/ \E f \in LoadFiles : LoadFilePanic(f)
  \/ \E f \in LoadFiles : LoadFileLatePanic(f)
  \/ LoadReturn

\* A build whose allocator calls may come at any time of the load.
BuildBeforeLoad ==
  \/ \E key \in AllocKeys : Get(key)
  \/ \E pair \in GlobPairs : GetGlob(pair[1], pair[2])

\* main: cache.GetCacheFromDisk() has returned the cache set, then
\* api.Context and Rebuild run the build, which calls Get and GetGlob on the
\* allocator of that cache set.
Build ==
  /\ loadPc = "returned"
  /\ \/ \E key \in AllocKeys : Get(key)
     \/ \E pair \in GlobPairs : GetGlob(pair[1], pair[2])

\* The load, over directories whose records are sound or unreadable, and
\* then the build.
StartupNext ==
  \/ \E listing \in [LoadFiles -> BOOLEAN],
          contents \in [LoadFiles -> {"none", "unreadable"}] :
       LoadStart(listing, contents)
  \/ LoadReadDirFails
  \/ \E f \in LoadFiles : LoadFileSkip(f)
  \/ \E f \in LoadFiles : LoadFileLock(f)
  \/ \E f \in LoadFiles : LoadFileInsert(f)
  \/ \E f \in LoadFiles : LoadFilePanic(f)
  \/ LoadReturn
  \/ Build

\* ------------------------------------------------- shared-memory accesses

\* Goroutines running operations of one cache set at the same time.
Goroutines == {"g1", "g2"}

\* The mutex of the allocator and the mutex of the JS store.
Mutexes == {"alloc", "js"}

\* The fields of SourceIndexCache, and the shared variables of the JS
\* store: its entries map and the package-level miss counter.
AllocatorState == {"entries", "globEntries", "nextSourceIndex"}

StoreState == {"jsEntries", "counterMiss"}

Step(kind, on) == [kind |-> kind, on |-> on]

\* What each operation does to the mutexes and to the shared variables, in
\* program order (the longest path of each: the miss path of Get, GetGlob
\* and Parse).
OpSteps(op) ==
  CASE op = "Get" ->                       \* cache.go:196-207
         <<Step("lock", "alloc"), Step("read", "entries"),
           Step("read", "nextSourceIndex"), Step("write", "nextSourceIndex"),
           Step("write", "entries"), Step("unlock", "alloc")>>
    [] op = "GetGlob" ->                   \* cache.go:209-220
         <<Step("lock", "alloc"), Step("read", "globEntries"),
           Step("read", "nextSourceIndex"), Step("write", "nextSourceIndex"),
           Step("write", "globEntries"), Step("unlock", "alloc")>>
    [] op = "LenHint" ->                   \* cache.go:187-194
         <<Step("lock", "alloc"), Step("read", "nextSourceIndex"),
           Step("unlock", "alloc")>>
    [] op = "Serialize" ->                 \* cache.go:113-122 (and Persist)
         <<Step("read", "nextSourceIndex"), Step("read", "entries"),
           Step("read", "globEntries")>>
    [] op = "Deserialize" ->               \* cache.go:124-131 (and GetFromDisk)
         <<Step("write", "nextSourceIndex"), Step("write", "entries"),
           Step("write", "globEntries")>>
    [] op = "LoadCacheFromDir" ->          \* cache_ast.go:279-281
         <<Step("write", "entries"), Step("write", "globEntries"),
           Step("write", "nextSourceIndex")>>
    [] op = "Parse" ->                     \* cache_ast.go:370-432
         <<Step("lock", "js"), Step("read", "jsEntries"), Step("unlock", "js"),
           Step("read", "counterMiss"), Step("write", "counterMiss"),
           Step("read", "counterMiss"),
           Step("lock", "js"), Step("write", "jsEntries"), Step("unlock", "js")>>
    [] op = "AddJsEntry" ->                \* cache.go:53-57
         <<Step("lock", "js"), Step("write", "jsEntries"), Step("unlock", "js")>>
    [] op = "SaveCacheEntryToFile" ->      \* cache_ast.go:154-174
         <<Step("lock", "js"), Step("read", "jsEntries"), Step("unlock", "js")>>
    [] op = "GetCacheEntries" ->           \* cache_ast.go:359-363
         <<Step("read", "jsEntries")>>
    [] op = "OverrideJsCacheEntries" ->    \* cache.go:59-61
         <<Step("write", "jsEntries")>>

Ops ==
  {"Get", "GetGlob", "LenHint", "Serialize", "Deserialize", "LoadCacheFromDir",
   "Parse", "AddJsEntry", "SaveCacheEntryToFile", "GetCacheEntries",
   "OverrideJsCacheEntries"}

RaceInit ==
  /\ prog = [g \in Goroutines |-> <<>>]
  /\ held = [m \in Mutexes |-> NoThread]

\* A goroutine calls an operation.
Begin(g, op) ==
  /\ prog[g] = <<>>
  /\ prog' = [prog EXCEPT ![g] = OpSteps(op)]
  /\ UNCHANGED <<held, cacheVars, allocVars, saveVars, caseVars, loadVars>>

\* mutex.Lock(): waits until the mutex is free.
StepLock(g) ==
  /\ prog[g] # <<>>
  /\ Head(prog[g]).kind = "lock"
  /\ held[Head(prog[g]).on] = NoThread
  /\ held' = [held EXCEPT ![Head(prog[g]).on] = g]
  /\ prog' = [prog EXCEPT ![g] = Tail(prog[g])]
  /\ UNCHANGED <<cacheVars, allocVars, saveVars, caseVars, loadVars>>

\* mutex.Unlock().
StepUnlock(g) ==
  /\ prog[g] # <<>>
  /\ Head(prog[g]).kind = "unlock"
  /\ held' = [held EXCEPT ![Head(prog[g]).on] = NoThread]
  /\ prog' = [prog EXCEPT ![g] = Tail(prog[g])]
  /\ UNCHANGED <<cacheVars, allocVars, saveVars, caseVars, loadVars>>

\* A read or a write of a shared variable.
StepAccess(g) ==
  /\ prog[g] # <<>>
  /\ Head(prog[g]).kind \in {"read", "write"}
  /\ prog' = [prog EXCEPT ![g] = Tail(prog[g])]
  /\ UNCHANGED <<held, cacheVars, allocVars, saveVars, caseVars, loadVars>>

RaceNext ==
  \/ \E g \in Goroutines, op \in Ops : Begin(g, op)
  \/ \E g \in Goroutines : StepLock(g)
  \/ \E g \in Goroutines : StepUnlock(g)
  \/ \E g \in Goroutines : StepAccess(g)

CacheNext ==
  \/ \E t \in Threads, in \in Inputs : Call(t, in)
  \/ \E t \in Threads : LockProbe(t)
  \/ \E t \in Threads : ProbeHit(t)
  \/ \E t \in Threads : ProbeMiss(t)
  \/ \E t \in Threads : Miss(t)
  \/ \E t \in Threads : LockInsert(t)
  \/ \E t \in Threads : Insert(t)
  \/ \E t \in Threads : Return(t)
  \/ \E e \in DiskEntries : AddJsEntryLock(e)
  \/ AddJsEntryInsert

\* Get, GetGlob and LenHint on one allocator.
AllocOpsNext ==
  \/ \E key \in AllocKeys : Get(key)
  \/ \E pair \in GlobPairs : GetGlob(pair[1], pair[2])
  \/ LenHint

\* The allocator with its file across restarts: each process loads the
\* file first (GetCacheFromDisk), serves Get and GetGlob, and persists.
AllocNext ==
  \/ \E key \in AllocKeys : Get(key)
  \/ \E pair \in GlobPairs : GetGlob(pair[1], pair[2])
  \/ Persist
  \/ GetCacheFromDisk
  \/ GetCacheFromDiskPanic

\* Get, GetGlob, Persist and load on one allocator, keys without blanks.
AllocPlainNext ==
  \/ \E key \in PlainKeys : Get(key)
  \/ \E pair \in GlobPairs : GetGlob(pair[1], pair[2])
  \/ Persist
  \/ Load

\* One Parse call per caller, all started against a store nothing else
\* touches: the calls run to their return and stay there.
BatchNext ==
  \/ \E t \in Threads, in \in Inputs : Call(t, in)
  \/ \E t \in Threads : LockProbe(t)
  \/ \E t \in Threads : ProbeHit(t)
  \/ \E t \in Threads : ProbeMiss(t)
  \/ \E t \in Threads : Miss(t)
  \/ \E t \in Threads : LockInsert(t)
  \/ \E t \in Threads : Insert(t)

\* Parse calls with SaveCacheEntryToFile running beside them for the
\* entries they insert.
SaveNext ==
  \/ BatchNext
  \/ \E filePath \in FilePaths, entryPath \in KeyPaths :
       SaveLock(filePath, entryPath)
  \/ \E marshal \in SaveMarshalOutcomes, write \in WriteOutcomes :
       SaveWrite(marshal, write)

\* Parse calls with SaveCacheEntryToFile and the loader's AddJsEntry
\* contending for the store mutex beside them; the calls are for the sources
\* the cache directory has records of, so that hits and misses both happen.
FairNext ==
  \/ \E t \in Threads, e \in DiskEntries :
       Call(t, [source |-> e.source, options |-> "o1"])
  \/ \E t \in Threads : LockProbe(t)
  \/ \E t \in Threads : ProbeHit(t)
  \/ \E t \in Threads : ProbeMiss(t)
  \/ \E t \in Threads : Miss(t)
  \/ \E t \in Threads : LockInsert(t)
  \/ \E t \in Threads : Insert(t)
  \/ \E entryPath \in KeyPaths : SaveLock("r1.json", entryPath)
  \/ \E marshal \in SaveMarshalOutcomes : SaveWrite(marshal, "written")
  \/ \E e \in DiskEntries : AddJsEntryLock(e)
  \/ AddJsEntryInsert

\* Get, GetGlob and Persist with every outcome of its marshal and write.
AllocPersistNext ==
  \/ \E key \in PlainKeys : Get(key)
  \/ \E pair \in GlobPairs : GetGlob(pair[1], pair[2])
  \/ \E marshal \in MarshalOutcomes, write \in WriteOutcomes :
       PersistWithIO(marshal, write)

\* No goroutine of the access model runs, no record file is written, no
\* directory load is under way.
AuxInit ==
  /\ RaceInit
  /\ files = [f \in FilePaths |-> NoFile]
  /\ svPc = "idle"
  /\ svKey = <<>>
  /\ lastSave = NoOp
  /\ named = NoOp
  /\ dirFiles = [f \in LoadFiles |-> FALSE]
  /\ pending = {}
  /\ ldLocked = "none"
  /\ loadPc = "idle"
  /\ inserted = {}
  /\ damage = [f \in LoadFiles |-> "none"]
  /\ result = NoOp
  /\ symbols = [ref \in SymbolRefs |-> InvalidRef]

Init == CacheInit /\ AllocInit /\ AuxInit /\ sample = NoOp

AllocOnlyInit ==
  /\ CacheInit
  /\ lang = "js"
  /\ harness = "parallel"
  /\ AllocInit
  /\ AuxInit
  /\ sample = NoOp

\* GetCacheFromDisk has made the cache set; the state file and the cache
\* directory are those an earlier process left.
LoadInit ==
  /\ CacheInit
  /\ lang = "js"
  /\ harness = "parallel"
  /\ srcEntries = EmptyMap
  /\ globEntries = EmptyMap
  /\ nextSourceIndex = RuntimeSourceIndex + 1
  /\ persisted \in PersistedStates
  /\ disk = Serialize(persisted.entries, persisted.globEntries,
                      persisted.nextSourceIndex)
  /\ alive = TRUE
  /\ lastOp = NoOp
  /\ owner = [i \in 0..(MaxIndex - 1) |-> NoName]
  /\ boots = 0
  /\ AuxInit
  /\ sample = NoOp

Next == CacheNext

Spec == Init /\ [][Next]_vars

AllocOpsSpec == AllocOnlyInit /\ [][AllocOpsNext]_vars

AllocSpec == AllocOnlyInit /\ [][AllocNext]_vars

AllocPlainSpec == AllocOnlyInit /\ [][AllocPlainNext]_vars

AllocPersistSpec == AllocOnlyInit /\ [][AllocPersistNext]_vars

BatchInit == Init /\ harness = "parallel"

BatchSpec == BatchInit /\ [][BatchNext]_vars

SaveSpec == AllocOnlyInit /\ [][SaveNext]_vars

\* The scheduler is fair and the parser returns: a step that stays possible
\* is taken (the critical sections, the parser and the deferred unlocks run
\* to their end), and a caller blocked in Lock gets the mutex if it is free
\* again and again (sync.Mutex hands the mutex to a waiter that has starved).
FairSpec ==
  /\ AllocOnlyInit
  /\ [][FairNext]_vars
  /\ \A t \in Threads :
       /\ WF_<<pc, mutex, svPc, ldPc>>(ProbeHit(t) \/ ProbeMiss(t) \/ Miss(t) \/ Insert(t))
       /\ SF_<<pc, mutex, svPc, ldPc>>(LockProbe(t) \/ LockInsert(t))
  /\ WF_<<pc, mutex, svPc, ldPc>>(\E marshal \in SaveMarshalOutcomes :
                                     SaveWrite(marshal, "written"))
  /\ WF_<<pc, mutex, svPc, ldPc>>(AddJsEntryInsert)

SymbolSpec == AllocOnlyInit /\ [][SymbolNext]_vars

NameSpec == AllocOnlyInit /\ [][NameNext]_vars

LoadSpec == LoadInit /\ [][LoadNext]_vars

StartupSpec == LoadInit /\ [][StartupNext]_vars

\* A cache set as MakeCacheSet leaves it, and a value to convert.
CodecInit ==
  /\ CacheInit
  /\ lang = "js"
  /\ harness = "parallel"
  /\ AllocInit
  /\ AuxInit
  /\ sample \in Samples

CodecSpec == CodecInit /\ [][CodecNext]_vars

RaceSpec == AllocOnlyInit /\ [][RaceNext]_vars

\* ------------------------------------------------------------ entry stores

\* An entry whose fields all come from one parse of its own source, or from
\* one record of the cache directory.
Complete(e) ==
  IF e.origin = "parse"
  THEN /\ e.source \in Sources
       /\ e.options \in Options
       /\ e.ast = ParserAst(lang, e.source, e.options)
       /\ e.ok = ParserOk(lang, e.source, e.options)
       /\ e.msgs = ParserMsgs(lang, e.source, e.options)
  ELSE e \in DiskEntries

\* Two calls on the same key path and pretty path.
SamePaths(c, d) ==
  /\ c.call.source.keyPath = d.call.source.keyPath
  /\ c.call.source.prettyPath = d.call.source.prettyPath

\* The serial caller is between two calls.
SerialIdle == harness = "serial" /\ pc[SerialThread] = "idle"

C4_FailureCached ==
  (harness = "serial" /\ lang \in {"js", "json"}) =>
    \A i \in 1..Len(hist) :
      LET c1 == hist[i]
          key == c1.call.source.keyPath
      IN (c1.parsed /\ ~c1.ret.ok) =>
           /\ (i = Len(hist) /\ SerialIdle) =>
                /\ entries[key] # NoEntry
                /\ entries[key].source = c1.call.source
                /\ ~entries[key].ok
           /\ (i < Len(hist) /\ hist[i + 1].call = c1.call) =>
                /\ ~hist[i + 1].parsed
                /\ ~hist[i + 1].ret.ok
                /\ hist[i + 1].log = c1.log

\* A failed JSON parse followed by the same call, which hits.
C4_Witness ==
  /\ harness = "serial" /\ lang = "json" /\ Len(hist) >= 2
  /\ hist[1].parsed /\ ~hist[1].ret.ok
  /\ hist[2].call = hist[1].call
  /\ ~hist[2].parsed /\ ~hist[2].ret.ok
  /\ hist[2].log = <<"E1", "E2">>

\* C5: in each of the three caches a call returns a cached AST only if its
\* options equal the options of the parse that made the entry.
C5_OptionsInKey ==
  \A t \in Threads :
    (pc[t] = "done" /\ ~parsed[t] /\ entry[t].origin = "parse") =>
      entry[t].options = call[t].options

LastName ==
  IF lastOp.op = "Get" THEN SrcName(lastOp.key)
  ELSE GlobName(lastOp.key[1], lastOp.key[2])

\* The indices the two maps of the allocator hold.
AssignedIndices ==
  { srcEntries[k] : k \in DOMAIN srcEntries }
    \cup { globEntries[k] : k \in DOMAIN globEntries }

\* C7: Get and GetGlob are idempotent: the index a call returns is the one
\* index ever returned for its key, and a call on a key that is already in
\* the map leaves nextSourceIndex unchanged.
C7_GetIdempotent ==
  lastOp.op \in {"Get", "GetGlob"} =>
    /\ owner[lastOp.ret] = LastName
    /\ \A i \in DOMAIN owner : owner[i] = LastName => i = lastOp.ret
    /\ lastOp.known => nextSourceIndex = lastOp.before

\* A repeated Get after other keys were assigned later indices.
C7_Witness ==
  /\ lastOp.op = "Get" /\ lastOp.known
  /\ lastOp.ret + 1 < nextSourceIndex
  /\ globEntries # EmptyMap

\* C8: no index is assigned to two keys, of either map; the first request
\* for a key returns nextSourceIndex as it was and raises it by one; and
\* nextSourceIndex is above every assigned index.
C8_IndicesUnique ==
  /\ \A k1, k2 \in DOMAIN srcEntries : srcEntries[k1] = srcEntries[k2] => k1 = k2
  /\ \A g1, g2 \in DOMAIN globEntries : globEntries[g1] = globEntries[g2] => g1 = g2
  /\ \A k \in DOMAIN srcEntries, g \in DOMAIN globEntries : srcEntries[k] # globEntries[g]
  /\ \A i \in AssignedIndices : i < nextSourceIndex
  /\ lastOp.op \in {"Get", "GetGlob"} =>
       /\ owner[lastOp.ret] = LastName
       /\ ~lastOp.known =>
            (lastOp.ret = lastOp.before /\ nextSourceIndex = lastOp.before + 1)

\* Keys of both maps hold indices, the last one given to a new glob key.
C8_Witness ==
  /\ lastOp.op = "GetGlob" /\ ~lastOp.known
  /\ Cardinality(DOMAIN globEntries) = 2
  /\ srcEntries # EmptyMap
  /\ nextSourceIndex = MaxIndex

\* C9: after Persist and a load of the written file into a fresh allocator,
\* the load has completed and the allocator holds the entries, the glob
\* entries and the nextSourceIndex it had at Persist.
C9_PersistLoadRoundTrip ==
  (persisted # NoFile /\ lastOp.op \in {"Load", "LoadPanic"}) =>
    /\ lastOp.op = "Load"
    /\ srcEntries = persisted.entries
    /\ globEntries = persisted.globEntries
    /\ nextSourceIndex = persisted.nextSourceIndex

\* C10: an index returned for a key is never afterwards returned for another
\* key, and nextSourceIndex stays above every index handed out.
C10_NoIndexReuse ==
  /\ lastOp.op \in {"Get", "GetGlob"} => owner[lastOp.ret] = LastName
  /\ \A i \in DOMAIN owner : owner[i] # NoName => i < nextSourceIndex

\* ------------------------------------------------- allocator: persist I/O

\* C11: a Persist whose serialized payload is empty returns an error and
\* leaves the state file as it was.
C11_EmptyPayloadRefused ==
  (lastOp.op = "Persist" /\ lastOp.payload = "empty") =>
    /\ lastOp.err
    /\ lastOp.write = "none"
    /\ disk = lastOp.before

\* An empty payload met after a state was written and the allocator has
\* moved on since.
C11_Witness ==
  /\ lastOp.op = "Persist" /\ lastOp.payload = "empty"
  /\ disk \notin {NoFile, TruncatedFile}
  /\ disk.NextSourceIndex < nextSourceIndex
  /\ lastOp.err

\* C12: a Persist whose write of the state file failed reports an error;
\* a Persist that reports success has written the current state.
C12_WriteFailureReported ==
  lastOp.op = "Persist" =>
    /\ lastOp.write = "failed" => lastOp.err
    /\ ~lastOp.err =>
         disk = Serialize(srcEntries, globEntries, nextSourceIndex)

\* ------------------------------------------------------------- data races

\* The goroutine is about to read or write one of the variables `on`.
Accessing(g, on) ==
  /\ prog[g] # <<>>
  /\ Head(prog[g]).kind \in {"read", "write"}
  /\ Head(prog[g]).on \in on

\* Two goroutines are about to access the same variable, one of them to
\* write it.
Racing(on) ==
  \E g, h \in Goroutines :
    /\ g # h
    /\ Accessing(g, on) /\ Accessing(h, on)
    /\ Head(prog[g]).on = Head(prog[h]).on
    /\ Head(prog[g]).kind = "write"

\* C13: every read and write of the allocator state happens while the
\* allocator mutex is held, so no mutator runs together with a reader or
\* another mutator.
C13_AllocatorAccessLocked ==
  /\ \A g \in Goroutines : Accessing(g, AllocatorState) => held["alloc"] = g
  /\ ~Racing(AllocatorState)

\* C14: every read and write of the entries map of the JS store and of the
\* miss counter happens while the store mutex is held, so the entry stores
\* have no data race.
C14_StoreAccessLocked ==
  /\ \A g \in Goroutines : Accessing(g, StoreState) => held["js"] = g
  /\ ~Racing(StoreState)

\* ------------------------------------------------------- concurrent calls

\* Every caller has returned from its one call.
AllDone == \A t \in Threads : pc[t] = "done"

\* The keys that hold an entry.
StoredKeys == { k \in KeyPaths : entries[k] # NoEntry }

\* C15: concurrent Parse calls on pairwise distinct key paths all complete
\* (a caller waiting for the mutex waits for a holder that is about to
\* release it); afterwards the store holds one entry per call, each with the
\* source, AST and diagnostics of its own call, and each caller's log holds
\* the diagnostics of its own parse once and nothing else.
C15_DistinctKeysInParallel ==
  (\A t, u \in Threads :
     (t # u /\ call[t] # NoCall /\ call[u] # NoCall) =>
       call[t].source.keyPath # call[u].source.keyPath) =>
    /\ \A t \in Threads :
         pc[t] \in {"lockProbe", "lockInsert"} =>
           \/ mutex = NoThread
           \/ mutex \in Threads /\ pc[mutex] \in {"probe", "insert"}
    /\ AllDone =>
         /\ Cardinality(StoredKeys) = Cardinality(Threads)
         /\ \A t \in Threads :
              LET e == entries[call[t].source.keyPath] IN
                /\ parsed[t]
                /\ e.source = call[t].source
                /\ e.ast = ParserAst(lang, call[t].source, call[t].options)
                /\ e.msgs = ParserMsgs(lang, call[t].source, call[t].options)
                /\ ret[t] = [ast |-> e.ast, ok |-> e.ok]
                /\ log[t] = ParserMsgs(lang, call[t].source, call[t].options)

\* Two calls on two keys have returned, one with two diagnostics in its log
\* and one with none.
C15_Witness ==
  /\ AllDone
  /\ call["t1"].source.keyPath # call["t2"].source.keyPath
  /\ Cardinality(StoredKeys) = 2
  /\ log["t1"] = <<"E1", "E2">>
  /\ log["t2"] = <<>>

\* C16: when two concurrent calls with the same source and options both
\* miss, both have invoked the parser, each log holds the diagnostics once,
\* both callers get the same (ast, ok), and the store holds exactly one
\* entry, under the key of that source and describing it.
C16_SameKeyBothMiss ==
  \A t, u \in Threads :
    (/\ t # u
     /\ pc[t] = "done" /\ pc[u] = "done"
     /\ call[t] = call[u]
     /\ parsed[t] /\ parsed[u]) =>
      /\ log[t] = ParserMsgs(lang, call[t].source, call[t].options)
      /\ log[u] = log[t]
      /\ ret[t] = ret[u]
      /\ StoredKeys = {call[t].source.keyPath}
      /\ entries[call[t].source.keyPath].source = call[t].source
      /\ entries[call[t].source.keyPath].ok = ret[t].ok

\* Both callers parsed the same failing source and both logs hold its two
\* diagnostics.
C16_Witness ==
  /\ AllDone
  /\ call["t1"] = call["t2"]
  /\ parsed["t1"] /\ parsed["t2"]
  /\ log["t1"] = <<"E1", "E2">>
  /\ log["t2"] = <<"E1", "E2">>

\* ------------------------------------------------------------ record files

C18_WriteLeavesParseAlone ==
  /\ \A k \in KeyPaths : entries[k] = lastInsert[k]
  /\ \A t \in Threads :
       pc[t] = "done" =>
         ret[t] = IF parsed[t]
                  THEN [ast |-> ParserAst(lang, call[t].source, call[t].options),
                        ok |-> ParserOk(lang, call[t].source, call[t].options)]
                  ELSE HitResult(entry[t])
  /\ \A t \in Threads :
       pc[t] \in {"lockProbe", "lockInsert"} =>
         \/ mutex = NoThread
         \/ mutex = "saver" /\ svPc = "locked"
         \/ mutex \in Threads /\ pc[mutex] \in {"probe", "insert"}

\* The write of the record of an entry failed; the call that made the entry
\* has returned its parse and the store still holds the entry.
C18_Witness ==
  /\ lastSave.op = "Save" /\ lastSave.write = "failed" /\ lastSave.err
  /\ \E t \in Threads :
       /\ pc[t] = "done" /\ parsed[t]
       /\ call[t].source.keyPath = lastSave.key
       /\ entries[lastSave.key] = entry[t]
       /\ ret[t] = [ast |-> entry[t].ast, ok |-> entry[t].ok]

\* ------------------------------------------------------------ record naming

\* C19: the record file name of an entry is the digest of its contents
\* followed by its identifier name, with ".json" appended; two entries with
\* the same contents and different identifier names get different names.
C19_RecordNamesDistinct ==
  named.op = "getJsonPath" =>
    /\ named.pathA[2] = "sha256"
    /\ SubSeq(named.pathA, 3, Len(named.pathA) - 1)
         = named.a.contents \o named.a.identifierName
    /\ named.pathA[Len(named.pathA)] = ".json"
    /\ (/\ named.a.contents = named.b.contents
        /\ named.a.identifierName # named.b.identifierName) =>
         named.pathA # named.pathB

\* Same non-empty contents, two different non-empty identifier names, two
\* record names.
C19_Witness ==
  /\ named.op = "getJsonPath"
  /\ named.a.contents = <<"a", "b">> /\ named.b.contents = <<"a", "b">>
  /\ named.a.identifierName = <<"c">>
  /\ named.b.identifierName = <<"b", "c">>
  /\ named.pathA # named.pathB

\* ----------------------------------------------------------- directory load

\* The listed regular files whose record is of key path k.
RegularFilesOf(k) ==
  { f \in DOMAIN dirFiles : dirFiles[f] /\ FileSource(f).keyPath = k }

C21_StrictStartup ==
  loadPc = "returned" => \A f \in LoadFiles : dirFiles[f] => damage[f] = "none"

\* The key named `name` holds index i in the allocator of the cache set.
Holds(name, i) ==
  \/ \E key \in DOMAIN srcEntries :
       SrcName(key) = name /\ srcEntries[key] = i
  \/ \E pair \in GlobPairs :
       /\ GlobName(pair[1], pair[2]) = name
       /\ GlobKey(pair[1], pair[2]) \in DOMAIN globEntries
       /\ globEntries[GlobKey(pair[1], pair[2])] = i

C23_RefRoundTrip ==
  result.op = "Ref" =>
    /\ result.out = sample.ref
    /\ LET d1 == ScanDigits(result.str)
           d2 == SubSeq(result.str, Len(d1) + 4, Len(result.str))
       IN /\ d1 # <<>>
          /\ d2 # <<>>
          /\ ScanDigits(d2) = d2
          /\ result.str = d1 \o <<"!", "~", "!">> \o d2

\* InvalidRef, both indices 2^32 - 1, came back from "4294967295!~!4294967295".
C23_Witness ==
  /\ result.op = "Ref"
  /\ sample.ref = [SourceIndex |-> <<65535, 65535>>,
                   InnerIndex |-> <<65535, 65535>>]
  /\ result.str = <<"4", "2", "9", "4", "9", "6", "7", "2", "9", "5",
                    "!", "~", "!",
                    "4", "2", "9", "4", "9", "6", "7", "2", "9", "5">>
  /\ result.out = sample.ref

\* C24: after Scope.MarshalJSON and Scope.UnmarshalJSON every scope has as
\* many children as before, in the same order, none of them nil, and each
\* child's parent is that scope itself, the module scope included.
C24_ScopeRoundTrip ==
  result.op = "Scope" =>
    \A o \in DOMAIN sample.tree :
      LET before == sample.tree[o].Children
          after == result.heap[result.image[o]].Children
      IN /\ Len(after) = Len(before)
         /\ \A i \in 1..Len(after) :
              /\ after[i] # 0
              /\ after[i] = result.image[before[i]]
              /\ result.heap[after[i]].Parent = result.image[o]

\* C25: writing and reading what was read back ends without a panic and
\* gives the same scope tree again, also for a tree with child scopes.
C25_FixpointAfterOneCycle ==
  result.op = "ScopeAgain" =>
    /\ ~result.panic
    /\ Len(result.twice) = Len(result.once)
    /\ \A j \in 1..Len(result.once) :
         Len(result.twice[j].Children) = Len(result.once[j].Children)

\* C26: an ENumber that is +Inf, -Inf or NaN is read back as +Inf, -Inf or
\* NaN, and every other number that is not one of the three stand-ins is
\* read back as itself.
C26_NumbersSurvive ==
  result.op = "Number" =>
    \/ sample.num \in { NumberStandIns.posInf, NumberStandIns.negInf,
                        NumberStandIns.nan }
    \/ result.out = sample.num

\* +Infinity was written as the text of math.MaxFloat64 and read back as
\* +Infinity.
C26_Witness ==
  /\ result.op = "Number"
  /\ sample.num.class = "inf"
  /\ ~sample.num.neg
  /\ result.str = <<"1", ".", "7", "9", "7", "6", "9", "3", "1", "3", "4",
                    "8", "6", "2", "3", "1", "5", "7", "e", "+", "3", "0",
                    "8">>
  /\ result.out = sample.num

\* C27: DeserializeFromJson(SerializeForJson(ast)) has the const values
\* (each Ref with the same kind and number), the mangled props and the
\* three refs of ast.
C27_EnvelopeRoundTrip ==
  result.op = "Envelope" =>
    /\ result.out.ConstValues = sample.ast.ConstValues
    /\ result.out.MangledProps = sample.ast.MangledProps
    /\ result.out.ExportsRef = sample.ast.ExportsRef
    /\ result.out.ModuleRef = sample.ast.ModuleRef
    /\ result.out.WrapperRef = sample.ast.WrapperRef

\* C28: a node without data is written with the empty tag and read back as
\* an empty slot with its location; a node with data is written with a tag
\* that is in the table of its family and read back as a node of the same
\* variant.
C28_VariantTagging ==
  result.op = "Node" =>
    /\ sample.node.Data = "" <=> result.raw.TypeName = ""
    /\ result.raw.TypeName # "" => result.raw.TypeName \in Mapping[sample.family]
    /\ result.out = sample.node

\* An expression slot without data was written with the empty tag and
\* came back empty, with its location.
C28_Witness ==
  /\ result.op = "Node"
  /\ sample.family = "expr"
  /\ sample.node = [Data |-> "", Loc |-> 7]
  /\ result.raw.TypeName = ""
  /\ result.out = [Data |-> "", Loc |-> 7]

\* ----------------------------------------------------------------- opcodes

\* The binary opcodes that assign, and those that do not and are neither
\* ** nor the comma.
AssignOps ==
  {
    "BinOpAssign", "BinOpAddAssign", "BinOpSubAssign", "BinOpMulAssign",
    "BinOpDivAssign", "BinOpRemAssign", "BinOpPowAssign", "BinOpShlAssign",
    "BinOpShrAssign", "BinOpUShrAssign", "BinOpBitwiseOrAssign",
    "BinOpBitwiseAndAssign", "BinOpBitwiseXorAssign",
    "BinOpNullishCoalescingAssign", "BinOpLogicalOrAssign",
    "BinOpLogicalAndAssign" }

PlainBinaryOps ==
  {
    "BinOpAdd", "BinOpSub", "BinOpMul", "BinOpDiv", "BinOpRem", "BinOpLt",
    "BinOpLe", "BinOpGt", "BinOpGe", "BinOpIn", "BinOpInstanceof",
    "BinOpShl", "BinOpShr", "BinOpUShr", "BinOpLooseEq", "BinOpLooseNe",
    "BinOpStrictEq", "BinOpStrictNe", "BinOpNullishCoalescing",
    "BinOpLogicalOr", "BinOpLogicalAnd", "BinOpBitwiseOr", "BinOpBitwiseAnd",
    "BinOpBitwiseXor" }

\* C29 as stated: ** is right-associative, every other binary opcode that
\* does not assign, the comma included, is left-associative, every
\* assignment opcode is right-associative, and no opcode is both.
C29_AssociativityAsStated ==
  result.op = "Associativity" =>
    /\ sample.name = "BinOpPow" => result.right
    /\ sample.name \in PlainBinaryOps \cup {"BinOpComma"} => result.left
    /\ sample.name \in AssignOps => result.right
    /\ ~(result.left /\ result.right)

\* C29, amended: ** is right-associative, every other binary opcode that
\* does not assign and is not the comma is left-associative, the comma is
\* neither, every assignment opcode is right-associative, and no opcode is
\* both.
C29_Associativity ==
  result.op = "Associativity" =>
    /\ sample.name = "BinOpPow" => result.right
    /\ sample.name \in PlainBinaryOps => result.left
    /\ sample.name = "BinOpComma" => ~result.left /\ ~result.right
    /\ sample.name \in AssignOps => result.right
    /\ ~(result.left /\ result.right)

\* ** was found right-associative and not left-associative.
C29_Witness ==
  /\ result.op = "Associativity"
  /\ sample.name = "BinOpPow"
  /\ result.right
  /\ ~result.left

\* ------------------------------------------------------------- termination

\* C30: no caller holds the store mutex while its parser runs; outside the
\* critical sections of Parse, SetCacheEntry, AddJsEntry and
\* SaveCacheEntryToFile nobody holds it; so, the parser returning and the
\* scheduler being fair, a held mutex is released, and every Parse call
\* returns.
C30_ParseReturns ==
  /\ [](\A t \in Threads : pc[t] = "miss" => mutex # t)
  /\ [](\A t \in Threads : mutex = t => pc[t] \in {"probe", "insert"})
  /\ [](mutex = "saver" => svPc = "locked")
  /\ [](mutex = "loader" => ldPc = "locked")
  /\ (mutex # NoThread) ~> (mutex = NoThread)
  /\ \A t \in Threads : (pc[t] # "idle") ~> (pc[t] = "done")

\* One caller's parser runs while SaveCacheEntryToFile holds the mutex for
\* the entry the other caller parsed, inserted and returned.
C30_Witness ==
  /\ pc["t1"] = "done" /\ parsed["t1"]
  /\ pc["t2"] = "miss"
  /\ mutex = "saver" /\ svPc = "locked"
  /\ svKey[2] = call["t1"].source.keyPath

\* ------------------------------------------------------ scope flattening

\* C31: the flat list of a scope tree is its pre-order: every scope of the
\* tree has exactly one record; the records of the scopes below a scope
\* follow its own record directly, as one block; the children of a scope
\* come in the order of its Children; the record of a scope names its
\* children in order and, for a scope other than the root, its parent; the
\* record of the module scope has the empty name as its parent.
C31_PreOrder ==
  result.op = "Scope" =>
    LET tree == sample.tree
        flat == result.flat
        RECURSIVE Above(_)
        Above(o) == IF tree[o].Parent = 0 THEN {}
                    ELSE {tree[o].Parent} \cup Above(tree[o].Parent)
        Below(o) == { d \in DOMAIN tree : o \in Above(d) }
        At(o) == { j \in 1..Len(flat) : flat[j].Name = o }
        pos(o) == CHOOSE j \in At(o) : TRUE
    IN /\ Len(flat) = Len(tree)
       /\ \A o \in DOMAIN tree : Cardinality(At(o)) = 1
       /\ \A o \in DOMAIN tree :
            /\ { pos(d) : d \in Below(o) }
                  = (pos(o) + 1)..(pos(o) + Cardinality(Below(o)))
            /\ \A i, k \in 1..Len(tree[o].Children) :
                 i < k => pos(tree[o].Children[i]) < pos(tree[o].Children[k])
            /\ flat[pos(o)].Children = tree[o].Children
            /\ o # 1 => /\ flat[pos(o)].Parent = tree[o].Parent
                        /\ flat[pos(o)].Parent # 0
       /\ flat[pos(1)].Parent = 0

\* The module scope has two children and the first of them a child of its
\* own, whose record stands between those of the two children.
C31_Witness ==
  /\ result.op = "Scope"
  /\ Len(result.flat) = 4
  /\ Len(result.flat[1].Children) = 2
  /\ result.flat[3].Parent = result.flat[2].Name
  /\ result.flat[4].Parent = result.flat[1].Name

\* ----------------------------------------------------------- 32-bit indices

Canonical(map, ref) ==
  LET RECURSIVE Walk(_)
      Walk(r) == IF map[r] = InvalidRef THEN r ELSE Walk(map[r])
  IN Walk(ref)

\* C33, as stated: after MergeSymbols(old, new), old and new follow to the
\* same ref, the ref returned has no Link, and a symbol that was in neither
\* class follows to the ref it followed to before; merging a symbol with
\* itself changes nothing; FollowSymbols changes the canonical ref of no
\* symbol.
C33_MergeAsStated ==
  /\ result.op = "MergeSymbols" =>
       /\ FollowSymbols(symbols, result.old).ref
            = FollowSymbols(symbols, result.new).ref
       /\ symbols[result.ref] = InvalidRef
       /\ \A r \in SymbolRefs :
            Canonical(result.before, r)
                \notin {Canonical(result.before, result.old),
                        Canonical(result.before, result.new)}
              => Canonical(symbols, r) = Canonical(result.before, r)
       /\ result.old = result.new => symbols = result.before
  /\ result.op = "FollowSymbols" =>
       \A r \in SymbolRefs :
         Canonical(symbols, r) = Canonical(result.before, r)

\* C33, amended: after MergeSymbols(old, new), old and new follow to the
\* same ref, and so does the ref returned; the ref returned has no Link
\* where old and new were in different classes before; a symbol that was in
\* neither class follows to the ref it followed to before; merging a symbol
\* with itself changes nothing; FollowSymbols changes the canonical ref of
\* no symbol.
C33_Merge ==
  /\ result.op = "MergeSymbols" =>
       /\ FollowSymbols(symbols, result.old).ref
            = FollowSymbols(symbols, result.new).ref
       /\ Canonical(symbols, result.ref) = Canonical(symbols, result.new)
       /\ Canonical(result.before, result.old)
              # Canonical(result.before, result.new)
            => symbols[result.ref] = InvalidRef
       /\ \A r \in SymbolRefs :
            Canonical(result.before, r)
                \notin {Canonical(result.before, result.old),
                        Canonical(result.before, result.new)}
              => Canonical(symbols, r) = Canonical(result.before, r)
       /\ result.old = result.new => symbols = result.before
  /\ result.op = "FollowSymbols" =>
       \A r \in SymbolRefs :
         Canonical(symbols, r) = Canonical(result.before, r)

\* Two classes of two symbols each were merged through their linked
\* members: all four symbols now follow to the ref returned.
C33_Witness ==
  /\ result.op = "MergeSymbols"
  /\ result.before[result.old] # InvalidRef
  /\ result.before[result.new] # InvalidRef
  /\ Canonical(result.before, result.old)
       # Canonical(result.before, result.new)
  /\ \A r \in SymbolRefs : Canonical(symbols, r) = result.ref

\* C34: after FollowAllSymbols every Link is invalid or points at a symbol
\* whose Link is invalid; on such a map a FollowSymbols call, however many
\* run side by side, writes nothing and returns the canonical ref.
C34_FlatAfterFollowAll ==
  LET Flat(map) ==
        \A r \in SymbolRefs :
          map[r] = InvalidRef \/ map[map[r]] = InvalidRef
  IN /\ result.op = "FollowAllSymbols" =>
          /\ Flat(symbols)
          /\ \A r \in SymbolRefs :
               /\ Canonical(symbols, r) = Canonical(result.before, r)
               /\ FollowSymbols(symbols, r).writes = 0
               /\ FollowSymbols(symbols, r).symbols = symbols
               /\ FollowSymbols(symbols, r).ref = Canonical(symbols, r)
     /\ (result.op = "FollowSymbols" /\ Flat(result.before)) =>
          /\ result.writes = 0
          /\ symbols = result.before
          /\ result.ref = Canonical(symbols, result.of)

\* FollowAllSymbols has run on a map with a chain of three links, which it
\* compressed.
C34_Witness ==
  /\ result.op = "FollowAllSymbols"
  /\ \E r \in SymbolRefs :
       /\ result.before[r] # InvalidRef
       /\ result.before[result.before[r]] # InvalidRef
       /\ result.before[result.before[result.before[r]]] # InvalidRef
       /\ symbols[symbols[r]] = InvalidRef

\* C35: from a map without links, whatever MergeSymbols and FollowSymbols
\* calls are made, following the Link of any symbol reaches a symbol
\* without a Link in fewer steps than there are symbols.
C35_LinksAcyclic ==
  LET RECURSIVE Ends(_, _)
      Ends(r, steps) ==
        IF symbols[r] = InvalidRef THEN TRUE
        ELSE IF steps = 0 THEN FALSE
        ELSE Ends(symbols[r], steps - 1)
  IN \A r \in SymbolRefs : Ends(r, Cardinality(SymbolRefs) - 1)

\* A merge was made of two symbols that were already in one class, the new
\* one linked below the old one.
C35_Witness ==
  /\ result.op = "MergeSymbols"
  /\ result.old # result.new
  /\ result.before[result.old] = InvalidRef
  /\ result.before[result.new] # InvalidRef
  /\ Canonical(result.before, result.new) = result.old
  /\ result.before[result.new] # result.old

\* ------------------------------------------------------------ hit and frame

C37_RestoredEntry ==
  lang = "js" =>
    /\ \A k \in KeyPaths :
         (entries[k] # NoEntry /\ entries[k].origin = "disk") =>
           LET e == entries[k]
               record == Record(NewCacheEntry(
                           e.source, "o1", ParserAst("js", e.source, "o1"),
                           ParserOk("js", e.source, "o1"),
                           ParserMsgs("js", e.source, "o1")))
           IN /\ e.ast = [decoded |-> record.Ast]
              /\ e.source = record.Source
              /\ e.ok = record.Ok
              /\ e.msgs = <<>>
              /\ e.options = ZeroOptions
    /\ \A t \in Threads :
         (pc[t] = "done" /\ ~parsed[t] /\ entry[t].origin = "disk") =>
           /\ log[t] = <<>>
           /\ ret[t] = [ast |-> entry[t].ast, ok |-> entry[t].ok]

\* A call for the failing source was served from the restored entry: it
\* returned ok = false and none of the two errors of the original parse.
C37_Witness ==
  /\ lang = "js"
  /\ \E t \in Threads :
       /\ pc[t] = "done" /\ ~parsed[t]
       /\ entry[t].origin = "disk"
       /\ ParserMsgs("js", entry[t].source, "o1") = <<"E1", "E2">>
       /\ ~ret[t].ok
       /\ log[t] = <<>>

\* ------------------------------------------------------- insert after decode

\* C38: while LoadCacheFromDir runs and after it, every entry of the JS
\* store was decoded from a regular file whose json.Unmarshal reported no
\* error; an entry of a file whose unmarshalling failed is in the store at
\* no time, not even until the panic.
C38_InsertAfterDecode ==
  \A k \in KeyPaths :
    entries[k] # NoEntry =>
      \E f \in LoadFiles :
        /\ dirFiles[f]
        /\ FileSource(f).keyPath = k
        /\ damage[f] \notin {"invalidJSON", "wrongType"}
        /\ entries[k] = FileEntry(f)

====
